---- MODULE Spec2Model ----
(***************************************************************************)
(* Model of the binary frame protocol layer of the zcc ground-control      *)
(* terminal: the controller registry (controller.py), the byte codec       *)
(* (binUtil.py), the sensor readout pipeline and frame parser              *)
(* (objects/ZAVDevice.py), the flash-extract validity filter               *)
(* (commands/sensor.py) with the handlers that consume its result, and     *)
(* the command handlers that talk to the device (commands/ping.py,         *)
(* connect.py, ignite.py, flash.py, sensor.py, dualDeploy.py and the       *)
(* sensor command of hw_commands.py), run one at a time from the prompt    *)
(* of main.py.                                                             *)
(*                                                                         *)
(* Representation of Python values:                                        *)
(*  - a dict is a sequence of <<key, value>> pairs in insertion order;     *)
(*  - an element of a received byte list is 0..255, or Empty for the b''   *)
(*    that serial.read() returns on a timeout;                             *)
(*  - a number is a record [fn, fmt, hi, lo]: the unsigned value is        *)
(*    hi * 65536 + lo (two 16-bit limbs, so that 32-bit values fit), fmt   *)
(*    is "int" or "float" (for "float" the limbs hold the IEEE-754 bit     *)
(*    pattern) and fn names the conversion function applied to it          *)
(*    ("None" when it is a raw value).                                     *)
(***************************************************************************)
EXTENDS Integers, Sequences, FiniteSets, TLC

VARIABLES
    data,                 \* sensor_extract_data_filter: the argument
    start_index,          \* sensor_extract_data_filter: local
    end_index,            \* sensor_extract_data_filter: local
    search_index,         \* sensor_extract_data_filter: local
    filter_pc,            \* "idle" | "loop" | "None" | "list" | "IndexError"
    sensor_data_filtered, \* the list returned by the filter (when "list")
    controller,           \* ZAVDevice.controller
    sensors,              \* getRawSensorReadouts: argument sensors
    sensor_bytes,         \* getRawSensorReadouts: argument sensor_bytes
    raw_status,           \* "idle" | "ok" | "struct.error"
    raw_readouts,         \* dict returned by getRawSensorReadouts
    conv_status,          \* "idle" | "ok"
    readouts,             \* dict returned by convRawSensorReadouts
    sensor_frames_bytes,  \* getSensorFrames: argument sensor_frames_bytes
    format,               \* getSensorFrames: argument format
    frames_status,        \* "idle" | "ok" | "TypeError" | "struct.error"
    sensor_frames,        \* list returned by getSensorFrames
    codec_byte_array,     \* byte_array_to_int / _to_float: the argument
    codec_op,             \* "idle" | "int" | "float": the function called
    codec_status,         \* "idle" | "ok" | "struct.error"
    codec_value,          \* the number returned by the codec function
    caller,               \* "none" | the handler that used the filter's result
    selectedSensorNames,  \* sensor plot: the sensors named on the command line
    caller_status,        \* "idle" | "ok" | "IndexError" | "TypeError"
    flash_write_enabled,  \* ZAVDevice.flash_write_enabled
    sensor_readouts,      \* ZAVDevice.sensor_readouts
    command,              \* "none" | the handler that ran last
    Args,                 \* its parsed arguments
    io,                   \* the bytes it sent and the reads it made, in order
    cmd_status,           \* "idle" | "ok" | "help" | "rejected" | an exception
    rx_byte_blocks,       \* flash extract: the frame blocks read
    unused_bytes,         \* flash extract: the padding read after them
    export_file,          \* flash extract: the lines of the export file
    response,             \* the status bytes the handler read, in order
    report,               \* the messages it printed about the outcome
    is_open,              \* ZAVDevice.serialObj.is_open
    firmware,             \* ZAVDevice.firmware
    firmware_name         \* ZAVDevice.firmware_name ("undefined" until set)

filterVars  == <<data, start_index, end_index, search_index, filter_pc,
                 sensor_data_filtered>>
readoutVars == <<sensors, sensor_bytes, raw_status, raw_readouts,
                 conv_status, readouts>>
frameVars   == <<sensor_frames_bytes, format, frames_status, sensor_frames>>
codecVars   == <<codec_byte_array, codec_op, codec_status, codec_value>>
callerVars  == <<caller, selectedSensorNames, caller_status>>
cmdVars     == <<flash_write_enabled, sensor_readouts, command, Args, io,
                 cmd_status, rx_byte_blocks, unused_bytes, export_file,
                 response, report>>
sessionVars == <<is_open, firmware, firmware_name>>
vars        == <<filterVars, controller, readoutVars, frameVars, codecVars,
                 callerVars, cmdVars, sessionVars>>

----------------------------------------------------------------------------
(* Bounds of the model *)

\* longest list handed to the filter
MaxLen == 6
\* a frame row is <<time, value>>; the filter compares whole rows only, so
\* the rows of the model share the time 0 and differ in value, 0..MaxVal
MaxVal == 2
\* longest user-selected sensor list (besides the controller's full list)
MaxSel == 2
\* a byte buffer is up to MaxShort elements shorter / MaxExtra longer than
\* the bytes its keys need, and its last MaxLost reads may have timed out
MaxShort == 2
MaxExtra == 1
MaxLost == 1
\* most frame blocks handed to getSensorFrames
MaxBlocks == 2

----------------------------------------------------------------------------
(* Python helpers *)

\* b'' : the value of a read that timed out
Empty == -1

Min(a, b) == IF a < b THEN a ELSE b
Max(a, b) == IF a > b THEN a ELSE b

\* seq[lo:hi] for 0 <= lo: bounds are clamped to the length, a negative hi
\* counts from the end
PySlice(seq, lo, hi) ==
    LET n  == Len(seq)
        h0 == IF hi < 0 THEN Max(hi + n, 0) ELSE Min(hi, n)
        l0 == Min(lo, n)
    IN  IF h0 <= l0 THEN <<>> ELSE SubSeq(seq, l0 + 1, h0)

\* seq[i] : a negative index counts from the end; outside the list the
\* access raises IndexError
PyInRange(seq, i) == (-Len(seq) <= i) /\ (i < Len(seq))
PyIndex(seq, i)   == IF i < 0 THEN seq[Len(seq) + i + 1] ELSE seq[i + 1]

\* dict operations on the pair-sequence representation
DictKeys(d)   == [i \in 1..Len(d) |-> d[i][1]]
DictValues(d) == [i \in 1..Len(d) |-> d[i][2]]
DictHas(d, k) == \E i \in 1..Len(d) : d[i][1] = k
DictGet(d, k) == d[CHOOSE i \in 1..Len(d) : d[i][1] = k][2]
DictSet(d, k, v) ==
    IF DictHas(d, k)
    THEN [i \in 1..Len(d) |-> IF d[i][1] = k THEN <<k, v>> ELSE d[i]]
    ELSE Append(d, <<k, v>>)

Pow256(i) == IF i = 0 THEN 1 ELSE IF i = 1 THEN 256 ELSE IF i = 2 THEN 65536
             ELSE 16777216

----------------------------------------------------------------------------
(* Flash-extract validity filter: commands/sensor.py,                      *)
(* sensor_extract_data_filter (the copies in commands/dualDeploy.py and    *)
(* hw_commands.py are identical line for line)                             *)

\* the rows a decoded frame list is made of
Rows == {0} \X (0..MaxVal)

RECURSIVE ListsUpTo(_, _)
ListsUpTo(S, n) ==
    IF n = 0 THEN {<<>>}
    ELSE LET shorter == ListsUpTo(S, n - 1)
         IN  shorter \cup {Append(l, x) : l \in {m \in shorter : Len(m) = n - 1}, x \in S}

\* search_index = ( (end_index - start_index)//2 ) + start_index
SearchIndex == ((end_index - start_index) \div 2) + start_index

\* data[search_index] and data[search_index+1] both exist
SearchInRange ==
    PyInRange(data, SearchIndex) /\ PyInRange(data, SearchIndex + 1)

\* rows_equal = ( data[search_index] == data[search_index+1] )
RowsEqual == PyIndex(data, SearchIndex) = PyIndex(data, SearchIndex + 1)

\* mutant: end_index starts at len( data )
FilterCall_Mut ==
    /\ filter_pc = "idle"
    /\ filter_pc' = "loop"
    /\ start_index' = 0
    /\ end_index' = Len(data)
    /\ search_index' = 0
    /\ UNCHANGED <<data, sensor_data_filtered>>

\* the locals before the first iteration
FilterCall ==
    /\ filter_pc = "idle"
    /\ filter_pc' = "loop"
    /\ start_index' = 0
    /\ end_index' = Len(data) - 1
    /\ search_index' = 0
    /\ UNCHANGED <<data, sensor_data_filtered>>

\* the comparison indexes outside the list
FilterIndexError ==
    /\ filter_pc = "loop"
    /\ ~SearchInRange
    /\ search_index' = SearchIndex
    /\ filter_pc' = "IndexError"
    /\ UNCHANGED <<data, start_index, end_index, sensor_data_filtered>>

\* if ( search_index == start_index ): return None or data[0:search_index-1]
FilterExitAtStart ==
    /\ filter_pc = "loop"
    /\ SearchInRange
    /\ SearchIndex = start_index
    /\ search_index' = SearchIndex
    /\ IF RowsEqual
       THEN /\ filter_pc' = "None"
            /\ UNCHANGED sensor_data_filtered
       ELSE /\ filter_pc' = "list"
            /\ sensor_data_filtered' = PySlice(data, 0, SearchIndex - 1)
    /\ UNCHANGED <<data, start_index, end_index>>

\* elif ( search_index + 1 == end_index ): return data[0:start_index-1] or
\* data[0:end_index-1]
FilterExitAtEnd ==
    /\ filter_pc = "loop"
    /\ SearchInRange
    /\ SearchIndex # start_index
    /\ SearchIndex + 1 = end_index
    /\ search_index' = SearchIndex
    /\ filter_pc' = "list"
    /\ sensor_data_filtered' =
           IF RowsEqual THEN PySlice(data, 0, start_index - 1)
                        ELSE PySlice(data, 0, end_index - 1)
    /\ UNCHANGED <<data, start_index, end_index>>

\* mutant: rows that differ leave the search range as it is
FilterNarrow_Mut ==
    /\ filter_pc = "loop"
    /\ SearchInRange
    /\ SearchIndex # start_index
    /\ SearchIndex + 1 # end_index
    /\ search_index' = SearchIndex
    /\ IF RowsEqual
       THEN end_index' = SearchIndex /\ UNCHANGED start_index
       ELSE UNCHANGED <<start_index, end_index>>
    /\ UNCHANGED <<data, filter_pc, sensor_data_filtered>>

\* else: narrow the search range and go round the loop again
FilterNarrow ==
    /\ filter_pc = "loop"
    /\ SearchInRange
    /\ SearchIndex # start_index
    /\ SearchIndex + 1 # end_index
    /\ search_index' = SearchIndex
    /\ IF RowsEqual
       THEN end_index' = SearchIndex /\ UNCHANGED start_index
       ELSE start_index' = SearchIndex /\ UNCHANGED end_index
    /\ UNCHANGED <<data, filter_pc, sensor_data_filtered>>

\* the sensor lists of a plot command: none, or the sensor of column 1
PlotSelections == {<<>>, <<"pres">>}

\* sensor plot, from the call of the filter on:
\*   sensor_data_filtered = np.array( sensor_data_filtered )
\*   for sensor in selectedSensorNames:
\*       time_data = sensor_data_filtered[:,0]/60.0
\* np.array( None ) has no dimension and np.array( [] ) has one: indexing
\* them with [:,0] raises IndexError
SensorPlot ==
    /\ filter_pc \in {"None", "list"}
    /\ caller = "none"
    /\ caller' = "sensor plot"
    /\ \E names \in PlotSelections :
          /\ selectedSensorNames' = names
          /\ caller_status' =
                 IF names = <<>> THEN "ok"
                 ELSE IF filter_pc = "None" \/ sensor_data_filtered = <<>>
                      THEN "IndexError" ELSE "ok"
    /\ UNCHANGED filterVars

\* dual-deploy extract, from the call of the filter on:
\*   for sensor_frame in sensor_frames_filtered: ...
\* iterating over None raises TypeError
DualDeployExtract ==
    /\ filter_pc \in {"None", "list"}
    /\ caller = "none"
    /\ caller' = "dual-deploy extract"
    /\ caller_status' = IF filter_pc = "None" THEN "TypeError" ELSE "ok"
    /\ UNCHANGED <<filterVars, selectedSensorNames>>

FilterStep ==
    /\ \/ /\ \/ FilterCall
             \/ FilterIndexError
             \/ FilterExitAtStart
             \/ FilterExitAtEnd
             \/ FilterNarrow
          /\ UNCHANGED callerVars
       \/ SensorPlot
       \/ DualDeployExtract
    /\ UNCHANGED <<controller, readoutVars, frameVars, codecVars, cmdVars,
                   sessionVars>>

\* values of the variables of an operation that has not been called
FilterIdle ==
    /\ data = <<>>
    /\ start_index = 0
    /\ end_index = 0
    /\ search_index = 0
    /\ filter_pc = "idle"
    /\ sensor_data_filtered = <<>>

ReadoutIdle ==
    /\ sensors = <<>>
    /\ sensor_bytes = <<>>
    /\ raw_status = "idle"
    /\ raw_readouts = <<>>
    /\ conv_status = "idle"
    /\ readouts = <<>>

FramesIdle ==
    /\ sensor_frames_bytes = <<>>
    /\ format = "converted"
    /\ frames_status = "idle"
    /\ sensor_frames = <<>>

CodecIdle ==
    /\ codec_byte_array = <<>>
    /\ codec_op = "idle"
    /\ codec_status = "idle"
    /\ codec_value = <<>>

CallerIdle ==
    /\ caller = "none"
    /\ selectedSensorNames = <<>>
    /\ caller_status = "idle"

\* a list that is long because its elements are, from some index on, all
\* the same: the elements of head, then count copies of tail
RList(head, tail, count) == [head |-> head, tail |-> tail, count |-> count]

NoList == RList(<<>>, <<>>, 0)

\* the device object after __init__, and no command run
CommandsIdle ==
    /\ flash_write_enabled = FALSE
    /\ sensor_readouts = <<>>
    /\ command = "none"
    /\ Args = <<>>
    /\ io = <<>>
    /\ cmd_status = "idle"
    /\ rx_byte_blocks = NoList
    /\ unused_bytes = <<>>
    /\ export_file = NoList
    /\ response = <<>>
    /\ report = <<>>

\* the serial port and the firmware of the device object after __init__
SessionIdle ==
    /\ is_open = FALSE
    /\ firmware = "None"
    /\ firmware_name = "undefined"

InitFilter ==
    /\ data \in ListsUpTo(Rows, MaxLen)
    /\ start_index = 0
    /\ end_index = 0
    /\ search_index = 0
    /\ filter_pc = "idle"
    /\ sensor_data_filtered = <<>>
    /\ controller = "None"
    /\ ReadoutIdle
    /\ FramesIdle
    /\ CodecIdle
    /\ CallerIdle
    /\ CommandsIdle
    /\ SessionIdle

SpecFilter == InitFilter /\ [][FilterStep]_vars

\* the interpreter keeps executing a function that was called: a step of
\* the filter or of its caller that can be taken is taken
SpecFilterLive == SpecFilter /\ WF_vars(FilterStep)

----------------------------------------------------------------------------
(* Controller registry: controller.py *)

controller_names ==
    << "Base Flight Computer (A0001 Rev 1.0)",
       "Full Feature Flight Computer (A0002 Rev 1.0)",
       "Legacy SDR Flight Computer (A0003 Rev 1.0)",
       "Legacy SDR Flight Computer Lite (A0004 Rev 1.0)" >>

ControllerNames == {controller_names[i] : i \in 1..Len(controller_names)}

\* Controller identification codes
controller_codes == <<1, 2, 3, 4>>

\* Controller descriptions from identification codes
controller_descriptions ==
    << <<1, "Base Flight Computer (A0001 Rev 1.0)">>,
       <<2, "Full Feature Flight Computer (A0002 Rev 1.0)">>,
       <<3, "Legacy SDR Flight Computer (A0003 Rev 1.0)">>,
       <<4, "Legacy SDR Flight Computer Lite (A0004 Rev 1.0)">> >>

\* Firmware Ids
firmware_ids ==
    << <<1, "Terminal">>, <<2, "Data Logger">>, <<3, "Dual Deploy">> >>

\* Lists of sensors on each controller (the keys, in order)
controller_sensors ==
    [c \in ControllerNames |->
        CASE c = controller_names[1] -> <<"pres", "temp", "vbat">>
          [] c = controller_names[2] ->
                <<"accX", "accY", "accZ", "gyroX", "gyroY", "gyroZ",
                  "magX", "magY", "magZ", "imut", "pres", "temp", "vbat">>
          [] c = controller_names[3] ->
                <<"accX", "accY", "accZ", "gyroX", "gyroY", "gyroZ",
                  "magX", "magY", "magZ", "imut", "pres", "temp">>
          [] c = controller_names[4] -> <<"pres", "temp">>]

\* Size of raw sensor readouts in bytes
sensor_sizes ==
    [c \in ControllerNames |->
        CASE c = controller_names[1] ->
                << <<"pres", 4>>, <<"temp", 4>>, <<"vbat", 4>> >>
          [] c = controller_names[2] ->
                << <<"accX", 2>>, <<"accY", 2>>, <<"accZ", 2>>,
                   <<"gyroX", 2>>, <<"gyroY", 2>>, <<"gyroZ", 2>>,
                   <<"magX", 2>>, <<"magY", 2>>, <<"magZ", 2>>,
                   <<"imut", 2>>, <<"pres", 4>>, <<"temp", 4>>,
                   <<"vbat", 4>> >>
          [] c = controller_names[3] ->
                << <<"accX", 2>>, <<"accY", 2>>, <<"accZ", 2>>,
                   <<"gyroX", 2>>, <<"gyroY", 2>>, <<"gyroZ", 2>>,
                   <<"magX", 2>>, <<"magY", 2>>, <<"magZ", 2>>,
                   <<"imut", 2>>, <<"pres", 4>>, <<"temp", 4>> >>
          [] c = controller_names[4] ->
                << <<"pres", 4>>, <<"temp", 4>> >>]

\* mutant: the Full Feature frame size without the battery voltage
sensor_frame_sizes_Mut ==
    [c \in ControllerNames |->
        CASE c = controller_names[1] -> 16
          [] c = controller_names[2] -> 32
          [] c = controller_names[3] -> 32
          [] c = controller_names[4] -> 12]

\* Size of a frame of data in flash memory
sensor_frame_sizes ==
    [c \in ControllerNames |->
        CASE c = controller_names[1] -> 16
          [] c = controller_names[2] -> 36
          [] c = controller_names[3] -> 32
          [] c = controller_names[4] -> 12]

\* Sensor raw readout conversion functions (by name; "None" for None)
sensor_conv_funcs ==
    [c \in ControllerNames |->
        CASE c = controller_names[1] ->
                << <<"pres", "baro_press">>, <<"temp", "baro_temp">>,
                   <<"vbat", "adc_readout_to_voltage">> >>
          [] c = controller_names[2] ->
                << <<"accX", "imu_accel">>, <<"accY", "imu_accel">>,
                   <<"accZ", "imu_accel">>, <<"gyroX", "imu_gyro">>,
                   <<"gyroY", "imu_gyro">>, <<"gyroZ", "imu_gyro">>,
                   <<"magX", "None">>, <<"magY", "None">>,
                   <<"magZ", "None">>, <<"imut", "None">>,
                   <<"pres", "baro_press">>, <<"temp", "baro_temp">>,
                   <<"vbat", "adc_readout_to_voltage">> >>
          [] c = controller_names[3] ->
                << <<"accX", "imu_accel">>, <<"accY", "imu_accel">>,
                   <<"accZ", "imu_accel">>, <<"gyroX", "imu_gyro">>,
                   <<"gyroY", "imu_gyro">>, <<"gyroZ", "imu_gyro">>,
                   <<"magX", "None">>, <<"magY", "None">>,
                   <<"magZ", "None">>, <<"imut", "None">>,
                   <<"pres", "baro_press">>, <<"temp", "baro_temp">> >>
          [] c = controller_names[4] ->
                << <<"pres", "baro_press">>, <<"temp", "baro_temp">> >>]

\* Sensor raw readout formats
sensor_formats ==
    [c \in ControllerNames |->
        CASE c = controller_names[1] ->
                << <<"pres", "float">>, <<"temp", "float">>,
                   <<"vbat", "float">> >>
          [] c = controller_names[2] ->
                << <<"accX", "int">>, <<"accY", "int">>, <<"accZ", "int">>,
                   <<"gyroX", "int">>, <<"gyroY", "int">>, <<"gyroZ", "int">>,
                   <<"magX", "int">>, <<"magY", "int">>, <<"magZ", "int">>,
                   <<"imut", "int">>, <<"pres", "float">>,
                   <<"temp", "float">>, <<"vbat", "float">> >>
          [] c = controller_names[3] ->
                << <<"accX", "int">>, <<"accY", "int">>, <<"accZ", "int">>,
                   <<"gyroX", "int">>, <<"gyroY", "int">>, <<"gyroZ", "int">>,
                   <<"magX", "int">>, <<"magY", "int">>, <<"magZ", "int">>,
                   <<"imut", "int">>, <<"pres", "float">>,
                   <<"temp", "float">> >>
          [] c = controller_names[4] ->
                << <<"pres", "float">>, <<"temp", "float">> >>]

----------------------------------------------------------------------------
(* Byte codec: binUtil.py *)

\* the number 0, as byte_array_to_int starts from it
Zero == [fn |-> "None", fmt |-> "int", hi |-> 0, lo |-> 0]

\* int.from_bytes( byte, 'big' ) of a list element: b'' gives 0
IntFromByte(byte) == IF byte = Empty THEN 0 ELSE byte

\* result += int_val << 8*i , on the two limbs (i in 0..3: a readout has at
\* most 4 bytes, so no limb carries)
AddShifted(result, int_val, i) ==
    IF i < 2 THEN [result EXCEPT !.lo = @ + int_val * Pow256(i)]
             ELSE [result EXCEPT !.hi = @ + int_val * Pow256(i - 2)]

\* mutant: most significant byte first
RECURSIVE IntLoop_Mut(_, _, _)
IntLoop_Mut(byte_array, i, result) ==
    IF i >= Len(byte_array) THEN result
    ELSE IntLoop_Mut(byte_array, i + 1,
                     AddShifted(result, IntFromByte(byte_array[i + 1]),
                                Len(byte_array) - 1 - i))

\* byte_array_to_int: least significant byte first
RECURSIVE IntLoop(_, _, _)
IntLoop(byte_array, i, result) ==
    IF i >= Len(byte_array) THEN result
    ELSE IntLoop(byte_array, i + 1,
                 AddShifted(result, IntFromByte(byte_array[i + 1]), i))

byte_array_to_int(byte_array) == IntLoop(byte_array, 0, Zero)

\* b''.join( byte_array ): the b'' elements contribute nothing
Joined(byte_array) == SelectSeq(byte_array, LAMBDA b : b # Empty)

\* struct.unpack( 'f', ... ) raises struct.error unless it gets 4 bytes
FloatFails(byte_array) ==
    /\ byte_array # <<255, 255, 255, 255>>
    /\ Len(Joined(byte_array)) # 4

\* mutant: every pattern with 0xFF in its first three bytes is replaced
byte_array_to_float_Mut(byte_array) ==
    LET checked == IF /\ Len(byte_array) = 4
                      /\ SubSeq(byte_array, 1, 3) = <<255, 255, 255>>
                   THEN <<0, 0, 0, 0>> ELSE byte_array
        bits    == byte_array_to_int(Joined(checked))
    IN  [bits EXCEPT !.fmt = "float"]

\* byte_array_to_float: the list of four 0xFF is replaced by four 0x00,
\* then the 4 joined bytes are reinterpreted as a float (the limbs hold its
\* bit pattern, least significant byte first)
byte_array_to_float(byte_array) ==
    LET checked == IF byte_array = <<255, 255, 255, 255>>
                   THEN <<0, 0, 0, 0>> ELSE byte_array
        bits    == byte_array_to_int(Joined(checked))
    IN  [bits EXCEPT !.fmt = "float"]

----------------------------------------------------------------------------
(* Sensor conversions: module sensor_conv, which controller.py and         *)
(* ZAVDevice.py import.  Each function is a deterministic numeric          *)
(* transform; its result is represented by its argument tagged with the    *)
(* function's name.                                                        *)

ApplyConv(func, value) == [value EXCEPT !.fn = func]

time_millis_to_sec(time) == ApplyConv("time_millis_to_sec", time)

----------------------------------------------------------------------------
(* Sensor readout pipeline: objects/ZAVDevice.py *)

\* mutant: index += 4, whatever the size of the sensor
RECURSIVE IndexWalk_Mut(_, _, _, _)
IndexWalk_Mut(sensor_size_dict, sensor_list, i, index) ==
    IF i > Len(sensor_list) THEN <<>>
    ELSE LET size == DictGet(sensor_size_dict, sensor_list[i])
         IN  <<[index |-> index, size |-> size]>>
                 \o IndexWalk_Mut(sensor_size_dict, sensor_list, i + 1,
                                  index + 4)

\* the walk of index over the sensors: index = 0; for sensor in sensors:
\* size = sensor_size_dict[sensor]; ...; index += size
RECURSIVE IndexWalk(_, _, _, _)
IndexWalk(sensor_size_dict, sensor_list, i, index) ==
    IF i > Len(sensor_list) THEN <<>>
    ELSE LET size == DictGet(sensor_size_dict, sensor_list[i])
         IN  <<[index |-> index, size |-> size]>>
                 \o IndexWalk(sensor_size_dict, sensor_list, i + 1, index + size)

\* mutant: sensor_bytes[index:size]
ReadoutBytes_Mut(sensor_size_dict, sensor_list, rx_bytes, i) ==
    LET at == IndexWalk(sensor_size_dict, sensor_list, 1, 0)[i]
    IN  PySlice(rx_bytes, at.index, at.size)

\* readout_bytes = sensor_bytes[index:index+size] for the i-th sensor
ReadoutBytes(sensor_size_dict, sensor_list, rx_bytes, i) ==
    LET at == IndexWalk(sensor_size_dict, sensor_list, 1, 0)[i]
    IN  PySlice(rx_bytes, at.index, at.index + at.size)

\* the loop of getRawSensorReadouts from the i-th sensor on; a float that
\* struct cannot unpack ends the call with struct.error and no dict
RECURSIVE RawLoop(_, _, _, _, _, _)
RawLoop(sensor_size_dict, sensor_format_dict, sensor_list, rx_bytes, i, dict) ==
    IF i > Len(sensor_list) THEN [status |-> "ok", readouts |-> dict]
    ELSE LET sensor        == sensor_list[i]
             readout_bytes == ReadoutBytes(sensor_size_dict, sensor_list,
                                           rx_bytes, i)
         IN  IF DictGet(sensor_format_dict, sensor) = "float"
             THEN IF FloatFails(readout_bytes)
                  THEN [status |-> "struct.error", readouts |-> <<>>]
                  ELSE RawLoop(sensor_size_dict, sensor_format_dict,
                               sensor_list, rx_bytes, i + 1,
                               DictSet(dict, sensor,
                                       byte_array_to_float(readout_bytes)))
             ELSE RawLoop(sensor_size_dict, sensor_format_dict,
                          sensor_list, rx_bytes, i + 1,
                          DictSet(dict, sensor,
                                  byte_array_to_int(readout_bytes)))

\* getRawSensorReadouts with the size table made explicit
RawSensorReadouts(sensor_size_dict, ctrl, sensor_list, rx_bytes) ==
    RawLoop(sensor_size_dict, sensor_formats[ctrl], sensor_list, rx_bytes,
            1, <<>>)

getRawSensorReadouts(ctrl, sensor_list, rx_bytes) ==
    RawSensorReadouts(sensor_sizes[ctrl], ctrl, sensor_list, rx_bytes)

\* mutant: the test for None is inverted
RECURSIVE ConvLoop_Mut(_, _, _, _)
ConvLoop_Mut(conv_funcs, raw, i, dict) ==
    IF i > Len(raw) THEN dict
    ELSE LET sensor == raw[i][1]
             func   == DictGet(conv_funcs, sensor)
         IN  ConvLoop_Mut(conv_funcs, raw, i + 1,
                          DictSet(dict, sensor,
                                  IF func = "None"
                                  THEN ApplyConv(func, DictGet(raw, sensor))
                                  ELSE DictGet(raw, sensor)))

\* convRawSensorReadouts: one entry per entry of the raw dict
RECURSIVE ConvLoop(_, _, _, _)
ConvLoop(conv_funcs, raw, i, dict) ==
    IF i > Len(raw) THEN dict
    ELSE LET sensor == raw[i][1]
             func   == DictGet(conv_funcs, sensor)
         IN  ConvLoop(conv_funcs, raw, i + 1,
                      DictSet(dict, sensor,
                              IF func # "None"
                              THEN ApplyConv(func, DictGet(raw, sensor))
                              ELSE DictGet(raw, sensor)))

convRawSensorReadouts(ctrl, raw) ==
    ConvLoop(sensor_conv_funcs[ctrl], raw, 1, <<>>)

----------------------------------------------------------------------------
(* Frame parser: objects/ZAVDevice.py, getSensorFrames *)

\* ord( sensor_byte ) raises TypeError on the b'' of a timed-out read
OrdFails(frame) == \E i \in 1..Len(frame) : frame[i] = Empty

\* time = int_frame[0] + (int_frame[1] << 8) + (int_frame[2] << 16)
\*        + (int_frame[3] << 24)
FrameTime(int_frame) ==
    [fn |-> "None", fmt |-> "int",
     lo |-> int_frame[1] + int_frame[2] * 256,
     hi |-> int_frame[3] + int_frame[4] * 256]

\* mutant: most significant byte first
RECURSIVE MeasureLoop_Mut(_, _, _, _, _)
MeasureLoop_Mut(int_frame, index, size, byte_num, measurement) ==
    IF byte_num >= size THEN measurement
    ELSE MeasureLoop_Mut(int_frame, index, size, byte_num + 1,
                         AddShifted(measurement,
                                    int_frame[index + byte_num + 1],
                                    size - 1 - byte_num))

\* the loop over byte_num for an integer sensor:
\* measurement += ( int_frame[index + byte_num] << 8*byte_num )
RECURSIVE MeasureLoop(_, _, _, _, _)
MeasureLoop(int_frame, index, size, byte_num, measurement) ==
    IF byte_num >= size THEN measurement
    ELSE MeasureLoop(int_frame, index, size, byte_num + 1,
                     AddShifted(measurement,
                                int_frame[index + byte_num + 1], byte_num))

\* the loop over byte_num for a float sensor: float_bytes.append( ... )
FloatBytes(int_frame, index, size) ==
    [byte_num \in 1..size |-> int_frame[index + byte_num]]

\* the loop over the controller's sensors, from the i-th on, at byte index
RECURSIVE FrameLoop(_, _, _, _, _)
FrameLoop(ctrl, int_frame, i, index, dict) ==
    IF i > Len(sensor_sizes[ctrl]) THEN [status |-> "ok", readouts |-> dict]
    ELSE LET sensor == sensor_sizes[ctrl][i][1]
             size   == sensor_sizes[ctrl][i][2]
             isflt  == DictGet(sensor_formats[ctrl], sensor) = "float"
         IN  IF index + size > Len(int_frame)
             THEN [status |-> "IndexError", readouts |-> <<>>]
             ELSE IF isflt /\ FloatFails(FloatBytes(int_frame, index, size))
             THEN [status |-> "struct.error", readouts |-> <<>>]
             ELSE FrameLoop(ctrl, int_frame, i + 1, index + size,
                     DictSet(dict, sensor,
                        IF isflt
                        THEN byte_array_to_float(
                                 FloatBytes(int_frame, index, size))
                        ELSE MeasureLoop(int_frame, index, size, 0, Zero)))

\* one frame in 'converted' format: the time, then the converted values
SensorFrame(ctrl, int_frame) ==
    IF Len(int_frame) < 4 THEN [status |-> "IndexError", frame |-> <<>>]
    ELSE LET r == FrameLoop(ctrl, int_frame, 1, 4, <<>>)
         IN  IF r.status # "ok" THEN [status |-> r.status, frame |-> <<>>]
             ELSE [status |-> "ok",
                   frame  |-> <<time_millis_to_sec(FrameTime(int_frame))>>
                       \o DictValues(convRawSensorReadouts(ctrl, r.readouts))]

\* mutant: each frame is put in front of the list instead of at its end
RECURSIVE FramesLoop_Mut(_, _, _, _)
FramesLoop_Mut(ctrl, frames_int, i, frames) ==
    IF i > Len(frames_int) THEN [status |-> "ok", frames |-> frames]
    ELSE LET f == SensorFrame(ctrl, frames_int[i])
         IN  IF f.status # "ok" THEN [status |-> f.status, frames |-> <<>>]
             ELSE FramesLoop_Mut(ctrl, frames_int, i + 1,
                                 <<f.frame>> \o frames)

RECURSIVE FramesLoop(_, _, _, _)
FramesLoop(ctrl, frames_int, i, frames) ==
    IF i > Len(frames_int) THEN [status |-> "ok", frames |-> frames]
    ELSE LET f == SensorFrame(ctrl, frames_int[i])
         IN  IF f.status # "ok" THEN [status |-> f.status, frames |-> <<>>]
             ELSE FramesLoop(ctrl, frames_int, i + 1, Append(frames, f.frame))

getSensorFrames(ctrl, frames_bytes, fmt) ==
    IF \E i \in 1..Len(frames_bytes) : OrdFails(frames_bytes[i])
    THEN [status |-> "TypeError", frames |-> <<>>]
    ELSE IF fmt = "converted"
         THEN FramesLoop(ctrl, frames_bytes, 1, <<>>)
         ELSE [status |-> "ok", frames |-> frames_bytes]

----------------------------------------------------------------------------
(* Calls of the pipeline and of the frame parser on a bound controller *)

\* fill patterns <<first byte, stride>> of a received buffer
Fills == {<<255, 0>>, <<1, 1>>, <<128, 37>>}

\* a list of n read results, of which the last `lost` timed out
MkBuffer(n, lost, fill) ==
    [i \in 1..n |-> IF i > n - lost THEN Empty
                    ELSE (fill[1] + fill[2] * (i - 1)) % 256]

RECURSIVE SumSizes(_, _, _)
SumSizes(sensor_size_dict, sensor_list, k) ==
    IF k = 0 THEN 0
    ELSE SumSizes(sensor_size_dict, sensor_list, k - 1)
             + DictGet(sensor_size_dict, sensor_list[k])

\* bytes the sensors of a list need
Need(ctrl, sensor_list) ==
    SumSizes(sensor_sizes[ctrl], sensor_list, Len(sensor_list))

Buffers(need) ==
    {MkBuffer(n, lost, fill) :
        n \in Max(0, need - MaxShort)..need + MaxExtra,
        lost \in 0..MaxLost, fill \in Fills}

\* the controller's full sensor list (sensor dump) and the lists a user can
\* select (sensor poll -n: each name is checked to be a sensor of the
\* controller; repetitions are not rejected)
KeyLists(ctrl) ==
    {controller_sensors[ctrl]}
        \cup ListsUpTo({controller_sensors[ctrl][i] :
                            i \in 1..Len(controller_sensors[ctrl])}, MaxSel)

\* blocks as getSensorFrameBytes reads them: readBytes( frame_size )
Blocks(ctrl) ==
    {MkBuffer(sensor_frame_sizes[ctrl], lost, fill) :
        lost \in 0..MaxLost, fill \in Fills}

GetRawSensorReadouts ==
    /\ raw_status = "idle"
    /\ LET r == getRawSensorReadouts(controller, sensors, sensor_bytes)
       IN  /\ raw_status' = r.status
           /\ raw_readouts' = r.readouts
    /\ UNCHANGED <<sensors, sensor_bytes, conv_status, readouts>>

ConvRawSensorReadouts ==
    /\ raw_status = "ok"
    /\ conv_status = "idle"
    /\ readouts' = convRawSensorReadouts(controller, raw_readouts)
    /\ conv_status' = "ok"
    /\ UNCHANGED <<sensors, sensor_bytes, raw_status, raw_readouts>>

ReadoutStep ==
    /\ \/ GetRawSensorReadouts
       \/ ConvRawSensorReadouts
    /\ UNCHANGED <<filterVars, controller, frameVars, codecVars,
                   callerVars, cmdVars, sessionVars>>

InitReadout ==
    /\ controller \in ControllerNames
    /\ sensors \in KeyLists(controller)
    /\ sensor_bytes \in Buffers(Need(controller, sensors))
    /\ raw_status = "idle"
    /\ raw_readouts = <<>>
    /\ conv_status = "idle"
    /\ readouts = <<>>
    /\ FilterIdle
    /\ FramesIdle
    /\ CodecIdle
    /\ CallerIdle
    /\ CommandsIdle
    /\ SessionIdle

SpecReadout == InitReadout /\ [][ReadoutStep]_vars

GetSensorFrames ==
    /\ frames_status = "idle"
    /\ LET r == getSensorFrames(controller, sensor_frames_bytes, format)
       IN  /\ frames_status' = r.status
           /\ sensor_frames' = r.frames
    /\ UNCHANGED <<sensor_frames_bytes, format>>

FramesStep ==
    /\ GetSensorFrames
    /\ UNCHANGED <<filterVars, controller, readoutVars, codecVars,
                   callerVars, cmdVars, sessionVars>>

InitFrames ==
    /\ controller \in ControllerNames
    /\ sensor_frames_bytes \in ListsUpTo(Blocks(controller), MaxBlocks)
    /\ format \in {"converted", "bytes"}
    /\ frames_status = "idle"
    /\ sensor_frames = <<>>
    /\ FilterIdle
    /\ ReadoutIdle
    /\ CodecIdle
    /\ CallerIdle
    /\ CommandsIdle
    /\ SessionIdle

SpecFrames == InitFrames /\ [][FramesStep]_vars

----------------------------------------------------------------------------
(* Calls of the byte codec on a list of read results *)

\* the elements of the lists handed to the codec: byte values and the b''
\* of a timed-out read
CodecBytes == {0, 1, 127, 255, Empty}

\* byte_array_to_int( byte_array ): returns for every list
ByteArrayToInt ==
    /\ codec_op = "idle"
    /\ codec_op' = "int"
    /\ codec_status' = "ok"
    /\ codec_value' = byte_array_to_int(codec_byte_array)
    /\ UNCHANGED codec_byte_array

\* byte_array_to_float( byte_array ): struct.unpack may raise
ByteArrayToFloat ==
    /\ codec_op = "idle"
    /\ codec_op' = "float"
    /\ IF FloatFails(codec_byte_array)
       THEN /\ codec_status' = "struct.error"
            /\ UNCHANGED codec_value
       ELSE /\ codec_status' = "ok"
            /\ codec_value' = byte_array_to_float(codec_byte_array)
    /\ UNCHANGED codec_byte_array

CodecStep ==
    /\ \/ ByteArrayToInt
       \/ ByteArrayToFloat
    /\ UNCHANGED <<filterVars, controller, readoutVars, frameVars,
                   callerVars, cmdVars, sessionVars>>

\* a readout has 1 to 4 bytes; the empty list is what a slice beyond the
\* end of a buffer gives
InitCodec ==
    /\ codec_byte_array \in ListsUpTo(CodecBytes, 4)
    /\ codec_op = "idle"
    /\ codec_status = "idle"
    /\ codec_value = <<>>
    /\ controller = "None"
    /\ FilterIdle
    /\ ReadoutIdle
    /\ FramesIdle
    /\ CallerIdle
    /\ CommandsIdle
    /\ SessionIdle

SpecCodec == InitCodec /\ [][CodecStep]_vars

----------------------------------------------------------------------------
(* Command handlers: commands/ping.py, commands/ignite.py,                 *)
(* commands/flash.py, commands/sensor.py and the sensor command of         *)
(* hw_commands.py, run on an open serial port with a controller bound.     *)
(* io records what a handler does with the port, in order: <<"tx", b, 1>>  *)
(* for a byte written, <<"rx", n, k>> for k consecutive reads of n bytes   *)
(* each.  Args holds the parsed inputs of the command line.                *)

\* most sensors named in a sensor poll command
MaxPoll == 2
\* most frames recorded in the flash before the erased memory
MaxRecorded == 2

Tx(byte) == <<"tx", byte, 1>>
Rx(n, k) == <<"rx", n, k>>

\* sendBytes( byte_array )
TxBytes(bytes) == [i \in 1..Len(bytes) |-> Tx(bytes[i])]

\* a handler is called from the prompt; what it leaves behind: its name, its
\* exchange with the device, how it ended, and the blocks, padding and file
\* of a flash extract
Ran(name, inputs, events, status, blocks, unused, file) ==
    /\ command = "none"
    /\ command' = name
    /\ Args' = inputs
    /\ io' = events
    /\ cmd_status' = status
    /\ rx_byte_blocks' = blocks
    /\ unused_bytes' = unused
    /\ export_file' = file

\* the status bytes a handler read and the messages it printed
Heard(bytes, messages) ==
    /\ response' = bytes
    /\ report' = messages

\* a handler that reads no flash, reads no status byte and prints no
\* message about the outcome
RanPlain(name, inputs, events, status) ==
    /\ Ran(name, inputs, events, status, NoList, <<>>, NoList)
    /\ Heard(<<>>, <<>>)

\* a handler that reads no flash
RanHeard(name, inputs, events, status, bytes, messages) ==
    /\ Ran(name, inputs, events, status, NoList, <<>>, NoList)
    /\ Heard(bytes, messages)

\* ( num >> bit_index ) & 1
Bit(num, bit_index) == (num \div (2 ^ bit_index)) % 2

----------------------------------------------------------------------------
(* ping: commands/ping.py *)

ping_opcode == 1

\* the bytes a device may answer a ping with: a timeout, the code of a
\* controller, another byte
PingResponses == {Empty, 1, 4, 9}

\* byte in controller_codes
InCodes(byte) == \E i \in 1..Len(controller_codes) : controller_codes[i] = byte

\* the message for a response to a ping
PingMessage(pingData) ==
    IF pingData = Empty
    THEN <<"Timeout expired. No device response recieved.">>
    ELSE IF InCodes(pingData)
    THEN <<"Response recieved from",
           DictGet(controller_descriptions, pingData)>>
    ELSE <<"Response recieved from an unknown device">>

\* ping -t timeout: the response only selects the message printed
Ping ==
    /\ \E pingData \in PingResponses :
          RanHeard("ping", [option |-> "-t"],
                   <<Tx(ping_opcode), Rx(1, 1)>>, "ok",
                   <<pingData>>, PingMessage(pingData))
    /\ UNCHANGED <<flash_write_enabled, sensor_readouts>>

----------------------------------------------------------------------------
(* ignite: commands/ignite.py *)

IGN_SUCCESS_CODE == 1
IGN_SWITCH_FAIL == 2
IGN_CONT_FAIL == 3
IGN_FAILED_TO_IGNITE == 4
IGN_UNRECOGNIZED_CMD == 5

ignite_OPCODE == 3
MAIN_CODE == 1
DROGUE_CODE == 2
CONT_CODE == 3

\* the keys of RETURN_MESSAGES
RETURN_MESSAGES ==
    {Empty, IGN_SUCCESS_CODE, IGN_SWITCH_FAIL, IGN_CONT_FAIL,
     IGN_FAILED_TO_IGNITE, IGN_UNRECOGNIZED_CMD}

\* RETURN_MESSAGES[ign_status], for a key of the dict
ReturnMessage(ign_status) ==
    CASE ign_status = Empty ->
             "Ignition unsuccessful. No response code received"
      [] ign_status = IGN_SUCCESS_CODE -> "Ignition successful"
      [] ign_status = IGN_SWITCH_FAIL ->
             "Ignition unsuccessful. Device is not armed."
      [] ign_status = IGN_CONT_FAIL ->
             "Ignition unsuccessful. No ematch continuity."
      [] ign_status = IGN_FAILED_TO_IGNITE ->
             "Ignition unsuccessful. Ematch failed to ignite."
      [] ign_status = IGN_UNRECOGNIZED_CMD ->
             "Error: unrecognized ignition response code"

\* the bytes a device may answer with: a timeout, the codes, other bytes
IgniteResponses == RETURN_MESSAGES \cup {0, 6, 255}

\* print( RETURN_MESSAGES[ign_status] ): KeyError for a byte that is no
\* key of the dict
IgniteOutcome(ign_status) ==
    IF ign_status \in RETURN_MESSAGES
    THEN [status |-> "ok", report |-> <<ReturnMessage(ign_status)>>]
    ELSE [status |-> "KeyError", report |-> <<>>]

\* ignite main / ignite drogue: print( RETURN_MESSAGES[ign_status] )
IgniteFire(name, code) ==
    /\ \E ign_status \in IgniteResponses :
          RanHeard(name, [subcommand |-> name],
                   <<Tx(ignite_OPCODE), Tx(code), Rx(1, 1)>>,
                   IgniteOutcome(ign_status).status,
                   <<ign_status>>, IgniteOutcome(ign_status).report)
    /\ UNCHANGED <<flash_write_enabled, sensor_readouts>>

IgniteMain == IgniteFire("ignite main", MAIN_CODE)

IgniteDrogue == IgniteFire("ignite drogue", DROGUE_CODE)

\* mutant: the main ematch is read from bit 2 and the drogue ematch from
\* bit 1
ContinuityReport_Mut(ign_cont) ==
    << IF Bit(ign_cont, 0) = 1 THEN "Switch:        Connected"
                               ELSE "Switch:        Disconnected",
       IF Bit(ign_cont, 2) = 1 THEN "Main Ematch:   Connected"
                               ELSE "Main Ematch:   Disconnected",
       IF Bit(ign_cont, 1) = 1 THEN "Drogue Ematch: Connected"
                               ELSE "Drogue Ematch: Disconnected" >>

\* the three lines printed for a continuity byte
ContinuityReport(ign_cont) ==
    << IF Bit(ign_cont, 0) = 1 THEN "Switch:        Connected"
                               ELSE "Switch:        Disconnected",
       IF Bit(ign_cont, 1) = 1 THEN "Main Ematch:   Connected"
                               ELSE "Main Ematch:   Disconnected",
       IF Bit(ign_cont, 2) = 1 THEN "Drogue Ematch: Connected"
                               ELSE "Drogue Ematch: Disconnected" >>

\* ignite cont: both bytes are read, then ord( ign_cont )
IgniteCont ==
    /\ \E ign_cont \in {Empty} \cup 0..255,
          ign_status \in {Empty, IGN_SUCCESS_CODE} :
          RanHeard("ignite cont", [subcommand |-> "ignite cont"],
                   <<Tx(ignite_OPCODE), Tx(CONT_CODE), Rx(1, 1), Rx(1, 1)>>,
                   IF ign_cont = Empty THEN "TypeError" ELSE "ok",
                   <<ign_cont, ign_status>>,
                   IF ign_cont = Empty THEN <<>>
                                       ELSE ContinuityReport(ign_cont))
    /\ UNCHANGED <<flash_write_enabled, sensor_readouts>>

----------------------------------------------------------------------------
(* flash: commands/flash.py *)

FLASH_WRITE_ENABLED == TRUE
FLASH_WRITE_DISABLED == FALSE

flash_OPCODE == 4
MAX_NUM_BYTES == 31
READ_CODE == 1
ENABLE_CODE == 2
DISABLE_CODE == 3
WRITE_CODE == 4
ERASE_CODE == 5
STATUS_CODE == 6
EXTRACT_CODE == 7

\* mutant: the 4096 blocks of 32 bytes of the Legacy SDR flight computer,
\* for every controller
EXTRACT_NUM_FRAMES_Mut(ctrl) == 524288 \div 32

EXTRACT_NUM_FRAMES(ctrl) == 524288 \div sensor_frame_sizes[ctrl]

EXTRACT_NUM_UNUSED_BYTES(ctrl) == 524288 % sensor_frame_sizes[ctrl]

\* the addresses and bytes of the -a and -b options, after int( ..., 0 )
FlashAddresses == {0, 66051, 16777215}
FlashBytes == {0, 1, 255}

\* address_int.to_bytes( 3, byteorder='big', signed=False )
AddressBytes(address_int) ==
    <<address_int \div 65536, (address_int \div 256) % 256, address_int % 256>>

\* flash enable
FlashEnable ==
    /\ RanPlain("flash enable", [subcommand |-> "enable"],
                <<Tx(flash_OPCODE), Tx(ENABLE_CODE)>>, "ok")
    /\ flash_write_enabled' = FLASH_WRITE_ENABLED
    /\ UNCHANGED sensor_readouts

\* flash disable
FlashDisable ==
    /\ RanPlain("flash disable", [subcommand |-> "disable"],
                <<Tx(flash_OPCODE), Tx(DISABLE_CODE)>>, "ok")
    /\ flash_write_enabled' = FLASH_WRITE_DISABLED
    /\ UNCHANGED sensor_readouts

\* flash status: ord( status_register ) comes before the test for b''
FlashStatus ==
    /\ \E status_register \in {Empty, 0, 129},
          flash_status_code \in {Empty, 0} :
          IF status_register = Empty
          THEN /\ flash_status_code = Empty
               /\ RanHeard("flash status", [subcommand |-> "status"],
                           <<Tx(flash_OPCODE), Tx(STATUS_CODE), Rx(1, 1)>>,
                           "TypeError", <<status_register>>, <<>>)
          ELSE RanHeard("flash status", [subcommand |-> "status"],
                        <<Tx(flash_OPCODE), Tx(STATUS_CODE), Rx(1, 1),
                          Rx(1, 1)>>, "ok",
                        <<status_register, flash_status_code>>,
                        <<"Status register contents: ">>)
    /\ UNCHANGED <<flash_write_enabled, sensor_readouts>>

\* mutant: the test of the write protection is left out
WriteRejected_Mut(enabled, option) == FALSE

\* if ( not zavDevice.getFlashWriteProtection()
\*      and not ( options[0] == '-h' ) ): error, return
WriteRejected(enabled, option) == (~enabled) /\ ~(option = "-h")

\* mutant: the data byte right after the address
WriteRequest_Mut(address_bytes, byte) ==
    <<Tx(flash_OPCODE), Tx(WRITE_CODE)>> \o TxBytes(address_bytes)
        \o <<Tx(byte)>>

\* flash write -b: opcode, subcommand, base address, number of bytes to
\* write ( sendBytes( b'\x01' ) ), byte to write
WriteRequest(address_bytes, byte) ==
    <<Tx(flash_OPCODE), Tx(WRITE_CODE)>> \o TxBytes(address_bytes)
        \o <<Tx(1)>> \o <<Tx(byte)>>

\* flash write with the options -h, -b and -a, or -s and -a (string is
\* never set, so that the handler finds no input to write)
FlashWrite ==
    /\ \E option \in {"-h", "-b", "-s"}, address_int \in FlashAddresses,
          byte_int \in FlashBytes :
          LET inputs == [subcommand |-> "write", option |-> option,
                         address_int |-> address_int, byte_int |-> byte_int]
          IN  IF WriteRejected(flash_write_enabled, option)
              THEN RanPlain("flash write", inputs, <<>>, "rejected")
              ELSE IF option = "-h"
              THEN RanPlain("flash write", inputs, <<>>, "help")
              ELSE IF option = "-b"
              THEN RanHeard("flash write", inputs,
                            WriteRequest(AddressBytes(address_int), byte_int),
                            "ok", <<>>, <<"Flash write successful">>)
              ELSE RanPlain("flash write", inputs, <<>>, "rejected")
    /\ UNCHANGED <<flash_write_enabled, sensor_readouts>>

\* flash read -n: opcode, subcommand, base address, number of bytes, then
\* num_bytes calls of readByte
ReadRequest(address_bytes, num_bytes) ==
    <<Tx(flash_OPCODE), Tx(READ_CODE)>> \o TxBytes(address_bytes)
        \o <<Tx(num_bytes)>> \o <<Rx(1, num_bytes)>>

\* flash read with the options -h, or -n and -a; a number of bytes outside
\* 1..MAX_NUM_BYTES is refused when the options are checked
FlashRead ==
    /\ \E option \in {"-h", "-n"}, address_int \in FlashAddresses,
          num_bytes \in {0, 1, 2, MAX_NUM_BYTES, MAX_NUM_BYTES + 1} :
          LET inputs == [subcommand |-> "read", option |-> option,
                         address_int |-> address_int, num_bytes |-> num_bytes]
          IN  IF option = "-h"
              THEN RanPlain("flash read", inputs, <<>>, "help")
              ELSE IF num_bytes <= 0 \/ num_bytes > MAX_NUM_BYTES
              THEN RanPlain("flash read", inputs, <<>>, "rejected")
              ELSE RanPlain("flash read", inputs,
                            ReadRequest(AddressBytes(address_int), num_bytes),
                            "ok")
    /\ UNCHANGED <<flash_write_enabled, sensor_readouts>>

\* flash erase
FlashErase ==
    /\ RanHeard("flash erase", [subcommand |-> "erase"],
                <<Tx(flash_OPCODE), Tx(ERASE_CODE)>>, "ok",
                <<>>, <<"Flash erase sucessful">>)
    /\ UNCHANGED <<flash_write_enabled, sensor_readouts>>

----------------------------------------------------------------------------
(* flash extract: commands/flash.py, on the lists of RList *)

RLen(l) == Len(l.head) + l.count

\* l[i] exists
RInRange(l, i) == (-RLen(l) <= i) /\ (i < RLen(l))

\* l[i] : a negative index counts from the end
RIndex(l, i) ==
    LET j == IF i < 0 THEN RLen(l) + i ELSE i
    IN  IF j < Len(l.head) THEN l.head[j + 1] ELSE l.tail

\* l[0:hi] : the bound is clamped to the length, a negative hi counts from
\* the end
RSlice(l, hi) ==
    LET n == RLen(l)
        h == IF hi < 0 THEN Max(hi + n, 0) ELSE Min(hi, n)
    IN  IF h <= Len(l.head) THEN RList(SubSeq(l.head, 1, h), <<>>, 0)
        ELSE RList(l.head, l.tail, h - Len(l.head))

\* the loop of sensor_extract_data_filter from the locals start_index and
\* end_index on; kind is "None", "list" or "IndexError"
RECURSIVE FilterLoop(_, _, _)
FilterLoop(l, start, end) ==
    LET search == ((end - start) \div 2) + start
    IN  IF ~(RInRange(l, search) /\ RInRange(l, search + 1))
        THEN [kind |-> "IndexError", list |-> NoList]
        ELSE LET rows_equal == RIndex(l, search) = RIndex(l, search + 1)
             IN  IF search = start
                 THEN IF rows_equal
                      THEN [kind |-> "None", list |-> NoList]
                      ELSE [kind |-> "list", list |-> RSlice(l, search - 1)]
                 ELSE IF search + 1 = end
                 THEN IF rows_equal
                      THEN [kind |-> "list", list |-> RSlice(l, start - 1)]
                      ELSE [kind |-> "list", list |-> RSlice(l, end - 1)]
                 ELSE IF rows_equal THEN FilterLoop(l, start, search)
                                    ELSE FilterLoop(l, search, end)

sensor_extract_data_filter(l) == FilterLoop(l, 0, RLen(l) - 1)

\* getSensorFrames on the blocks of an RList: every frame is decoded from
\* its own block, and a b'' in any block raises TypeError
RFrames(ctrl, blocks) ==
    LET flat == IF blocks.count > 0 THEN Append(blocks.head, blocks.tail)
                                    ELSE blocks.head
        r    == getSensorFrames(ctrl, flat, "converted")
    IN  IF r.status # "ok" THEN [status |-> r.status, frames |-> NoList]
        ELSE [status |-> "ok",
              frames |-> RList(SubSeq(r.frames, 1, Len(blocks.head)),
                               IF blocks.count > 0 THEN r.frames[Len(flat)]
                                                   ELSE <<>>,
                               blocks.count)]

\* file.write( str( val ) ); file.write( '\t' )
Str(val) == <<"str", val>>

\* one line of the export file: the values of a frame
ExportLine(sensor_frame) ==
    [i \in 1..Len(sensor_frame) |-> Str(sensor_frame[i])]

ExportLines(frames) ==
    RList([i \in 1..Len(frames.head) |-> ExportLine(frames.head[i])],
          ExportLine(frames.tail), frames.count)

\* mutant: the frames go through the validity filter before the export
ExportedFrames_Mut(frames) ==
    LET r == sensor_extract_data_filter(frames)
    IN  IF r.kind = "list" THEN r.list ELSE NoList

\* for sensor_frame in sensor_frames: the frames that are exported
ExportedFrames(frames) == frames

\* the first k frames recorded in the flash (no two the same)
Recorded(ctrl, k) ==
    [i \in 1..k |-> MkBuffer(sensor_frame_sizes[ctrl], 0, <<i, 1>>)]

\* n reads from the flash behind the recorded frames: erased memory reads
\* 0xFF; from a device that has gone silent every read times out
Unrecorded(n, silent) == MkBuffer(n, IF silent THEN n ELSE 0, <<255, 0>>)

\* flash extract: EXTRACT_NUM_FRAMES blocks of the frame size, then the
\* unused bytes; the blocks are decoded and every frame is exported
FlashExtract ==
    /\ \E k \in 0..MaxRecorded, silent \in BOOLEAN :
          LET size   == sensor_frame_sizes[controller]
              blocks == RList(Recorded(controller, k),
                              Unrecorded(size, silent),
                              EXTRACT_NUM_FRAMES(controller) - k)
              unused == Unrecorded(EXTRACT_NUM_UNUSED_BYTES(controller),
                                   silent)
              decoded == RFrames(controller, blocks)
          IN  /\ Ran("flash extract", [subcommand |-> "extract"],
                      <<Tx(flash_OPCODE), Tx(EXTRACT_CODE),
                        Rx(size, EXTRACT_NUM_FRAMES(controller)),
                        Rx(EXTRACT_NUM_UNUSED_BYTES(controller), 1)>>,
                      decoded.status, blocks, unused,
                      IF decoded.status = "ok"
                      THEN ExportLines(ExportedFrames(decoded.frames))
                      ELSE NoList)
              /\ Heard(<<>>, IF decoded.status = "ok"
                             THEN <<"Flash extract successful">>
                             ELSE <<>>)
    /\ UNCHANGED <<flash_write_enabled, sensor_readouts>>

----------------------------------------------------------------------------
(* sensor: commands/sensor.py, and the sensor command of hw_commands.py    *)
(* (the same statements, with its own opcode)                              *)

\* Sensor poll codes (controller.py)
sensor_codes ==
    [c \in ControllerNames |->
        CASE c = controller_names[1] ->
                << <<"pres", 0>>, <<"temp", 1>>, <<"vbat", 2>> >>
          [] c = controller_names[2] ->
                << <<"accX", 0>>, <<"accY", 1>>, <<"accZ", 2>>,
                   <<"gyroX", 3>>, <<"gyroY", 4>>, <<"gyroZ", 5>>,
                   <<"magX", 6>>, <<"magY", 7>>, <<"magZ", 8>>,
                   <<"imut", 9>>, <<"pres", 10>>, <<"temp", 11>>,
                   <<"vbat", 12>> >>
          [] c = controller_names[3] ->
                << <<"accX", 0>>, <<"accY", 1>>, <<"accZ", 2>>,
                   <<"gyroX", 3>>, <<"gyroY", 4>>, <<"gyroZ", 5>>,
                   <<"magX", 6>>, <<"magY", 7>>, <<"magZ", 8>>,
                   <<"imut", 9>>, <<"pres", 10>>, <<"temp", 11>> >>
          [] c = controller_names[4] ->
                << <<"pres", 0>>, <<"temp", 1>> >>]

sensor_OPCODE == 5

\* opcode of the sensor command in hw_commands.py
hw_sensor_opcode == 3

SUBCOMMAND_CODES == [dump |-> 1, poll |-> 2]

POLL_COMMANDS ==
    [START |-> 243, REQUEST |-> 81, WAIT |-> 68, RESUME |-> 239, STOP |-> 116]

POLL_TIMEOUT == 100

\* sensor dump: the device announces a number of bytes and sends them; the
\* readouts of all sensors of the controller are taken from them
SensorDumpHandler(name, opcode) ==
    \E size_byte \in {Empty, Need(controller, controller_sensors[controller])},
       lost \in 0..MaxLost, fill \in Fills :
       LET sensor_dump_size == IntFromByte(size_byte)
           sensorByteData   == MkBuffer(sensor_dump_size,
                                        Min(lost, sensor_dump_size), fill)
           raw == getRawSensorReadouts(controller,
                                       controller_sensors[controller],
                                       sensorByteData)
       IN  /\ RanPlain(name, [subcommand |-> "dump"],
                       <<Tx(opcode), Tx(SUBCOMMAND_CODES.dump), Rx(1, 1)>>
                           \o (IF sensor_dump_size = 0 THEN <<>>
                               ELSE <<Rx(1, sensor_dump_size)>>),
                       raw.status)
           /\ sensor_readouts' =
                  IF raw.status = "ok"
                  THEN convRawSensorReadouts(controller, raw.readouts)
                  ELSE sensor_readouts
           /\ UNCHANGED flash_write_enabled

SensorDump == SensorDumpHandler("sensor dump", sensor_OPCODE)

HwSensorDump == SensorDumpHandler("hw sensor dump", hw_sensor_opcode)

\* the sensors a poll command names: the first and the last sensor of the
\* controller, in any order, repetitions included
PollSelections(ctrl) ==
    ListsUpTo({controller_sensors[ctrl][1],
               controller_sensors[ctrl][Len(controller_sensors[ctrl])]},
              MaxPoll)

\* for sensor_num in selectedSensorNames:
\*     zavDevice.sendByte( sensor_poll_codes[sensor_num] )
PollCodes(ctrl, names) ==
    [i \in 1..Len(names) |-> Tx(DictGet(sensor_codes[ctrl], names[i]))]

\* the device answers the first `answered` requests of a poll; after that
\* every read times out
PollAnswers == {0, 1, POLL_TIMEOUT + 1}

\* the frame read in an iteration of the poll loop: the bytes of the
\* sensors named, or as many timed-out reads
PollFrame(ctrl, names, silent) ==
    LET size == Need(ctrl, names)
    IN  MkBuffer(size, IF silent THEN size ELSE 0, <<1, 1>>)

\* the values of timeout_ctr for which the loop body runs:
\* timeout_ctr = 0; while ( timeout_ctr <= POLL_TIMEOUT ): ...; timeout_ctr += 1
PollRuns ==
    {timeout_ctr \in 0..(POLL_TIMEOUT + 1) : timeout_ctr <= POLL_TIMEOUT}

\* the loop and what follows it: in every iteration REQUEST, the read of the
\* frame, the readouts (an exception ends the handler there), WAIT, RESUME;
\* after the loop STOP
PollLoop(ctrl, names, answered) ==
    LET size    == Need(ctrl, names)
        \* how get_sensor_readouts ends on an answered frame and on a
        \* frame of timed-out reads
        heard   == getRawSensorReadouts(ctrl, names,
                       PollFrame(ctrl, names, FALSE)).status
        silence == getRawSensorReadouts(ctrl, names,
                       PollFrame(ctrl, names, TRUE)).status
        ends(c) == IF c < answered THEN heard ELSE silence
        failing == {c \in PollRuns : ends(c) # "ok"}
        first   == CHOOSE c \in failing : \A d \in failing : c <= d
        done    == IF failing = {} THEN Cardinality(PollRuns) ELSE first
        whole   == [i \in 1..(4 * done) |->
                       CASE i % 4 = 1 -> Tx(POLL_COMMANDS.REQUEST)
                         [] i % 4 = 2 -> Rx(size, 1)
                         [] i % 4 = 3 -> Tx(POLL_COMMANDS.WAIT)
                         [] OTHER     -> Tx(POLL_COMMANDS.RESUME)]
    IN  IF failing = {}
        THEN [io     |-> whole \o <<Tx(POLL_COMMANDS.STOP)>>,
              status |-> "ok"]
        ELSE [io     |-> whole \o <<Tx(POLL_COMMANDS.REQUEST), Rx(size, 1)>>,
              status |-> ends(first)]

\* sensor poll -n names
SensorPollHandler(name, opcode) ==
    /\ \E names \in PollSelections(controller), answered \in PollAnswers :
          LET loop == PollLoop(controller, names, answered)
          IN  RanPlain(name, [subcommand |-> "poll", option |-> "-n",
                              selectedSensorNames |-> names],
                       <<Tx(opcode), Tx(SUBCOMMAND_CODES.poll),
                         Tx(Len(names))>>
                           \o PollCodes(controller, names)
                           \o <<Tx(POLL_COMMANDS.START)>> \o loop.io,
                       loop.status)
    /\ UNCHANGED <<flash_write_enabled, sensor_readouts>>

SensorPoll == SensorPollHandler("sensor poll", sensor_OPCODE)

HwSensorPoll == SensorPollHandler("hw sensor poll", hw_sensor_opcode)

----------------------------------------------------------------------------
(* Sequences of commands on a connected device *)

\* a handler that returned gives control back to the loop of main.py, which
\* reads the next command line; an exception ends the program
Prompt ==
    /\ cmd_status \in {"ok", "help", "rejected"}
    /\ command' = "none"
    /\ Args' = <<>>
    /\ io' = <<>>
    /\ cmd_status' = "idle"
    /\ rx_byte_blocks' = NoList
    /\ unused_bytes' = <<>>
    /\ export_file' = NoList
    /\ response' = <<>>
    /\ report' = <<>>
    /\ UNCHANGED <<flash_write_enabled, sensor_readouts>>

\* the port is open and a controller is bound, as after a connect -p that
\* succeeded
Connected == is_open /\ controller # "None"

CommandsStep ==
    /\ \/ Prompt
       \/ /\ Connected
          /\ \/ Ping
             \/ IgniteMain
             \/ IgniteDrogue
             \/ IgniteCont
             \/ FlashEnable
             \/ FlashDisable
             \/ FlashStatus
             \/ FlashWrite
             \/ FlashRead
             \/ FlashErase
             \/ FlashExtract
             \/ SensorDump
             \/ HwSensorDump
             \/ SensorPoll
             \/ HwSensorPoll
    /\ UNCHANGED <<filterVars, controller, readoutVars, frameVars, codecVars,
                   callerVars, sessionVars>>

\* the device object after a connect that bound a controller of a device
\* with the Terminal firmware: the flags as __init__ left them
InitCommands ==
    /\ controller \in ControllerNames
    /\ is_open = TRUE
    /\ firmware = DictGet(firmware_ids, 1)
    /\ firmware_name = "undefined"
    /\ CommandsIdle
    /\ FilterIdle
    /\ ReadoutIdle
    /\ FramesIdle
    /\ CodecIdle
    /\ CallerIdle

SpecCommands == InitCommands /\ [][CommandsStep]_vars

----------------------------------------------------------------------------
(* connect: commands/connect.py, with comports -c and comports -d of     *)
(* commands/comports.py                                                    *)

connect_OPCODE == 2

\* the identification bytes a device may answer with: a timeout, the codes
\* of two controllers, bytes that are no code
ConnectResponses == {Empty, 1, 4, 0, 5}

\* the firmware bytes a device may answer with: a timeout, the ids, bytes
\* that are no id
FirmwareResponses == {Empty, 1, 2, 3, 0, 4}

\* mutant: the port stays open
closeComport_Mut == is_open' = TRUE

\* comports -d: zavDevice.closeComport() on an open port
closeComport == is_open' = FALSE

\* connect -p port, the port being one of the available ports
ConnectPort ==
    /\ UNCHANGED <<flash_write_enabled, sensor_readouts, firmware_name>>
    /\ IF is_open
       THEN \* a port is active: error, return
            /\ RanPlain("connect -p", [option |-> "-p"], <<>>, "rejected")
            /\ UNCHANGED <<controller, is_open, firmware>>
       ELSE \E controller_response \in ConnectResponses :
              IF controller_response = Empty \/ ~InCodes(controller_response)
              THEN \* unsuccessful: comports -d closes the port
                   /\ RanHeard("connect -p", [option |-> "-p"],
                               <<Tx(connect_OPCODE), Rx(1, 1)>>, "ok",
                               <<controller_response>>,
                               <<"Controller connection was unsuccessful.">>)
                   /\ closeComport
                   /\ UNCHANGED <<controller, firmware>>
              ELSE \E firmware_byte \in FirmwareResponses :
                     IF DictHas(firmware_ids, firmware_byte)
                     THEN /\ RanHeard("connect -p", [option |-> "-p"],
                                      <<Tx(connect_OPCODE), Rx(1, 1),
                                        Rx(1, 1)>>, "ok",
                                      <<controller_response, firmware_byte>>,
                                      <<"Connection established with",
                                        DictGet(controller_descriptions,
                                                controller_response),
                                        "Firmware: ",
                                        DictGet(firmware_ids,
                                                firmware_byte)>>)
                          /\ is_open' = TRUE
                          /\ controller' =
                                 DictGet(controller_descriptions,
                                         controller_response)
                          /\ firmware' = DictGet(firmware_ids, firmware_byte)
                     ELSE \* firmware_ids[ byte ]: KeyError, the port is
                          \* left open
                          /\ RanHeard("connect -p", [option |-> "-p"],
                                      <<Tx(connect_OPCODE), Rx(1, 1),
                                        Rx(1, 1)>>, "KeyError",
                                      <<controller_response, firmware_byte>>,
                                      <<>>)
                          /\ is_open' = TRUE
                          /\ UNCHANGED <<controller, firmware>>

\* reset_controller: self.controller = None, self.firmware_name = None
reset_controller ==
    /\ controller' = "None"
    /\ firmware_name' = "None"
    /\ UNCHANGED firmware

\* connect -d
ConnectDisconnect ==
    /\ UNCHANGED <<flash_write_enabled, sensor_readouts>>
    /\ IF ~is_open
       THEN \* no active serial port to disconnect from
            /\ RanPlain("connect -d", [option |-> "-d"], <<>>, "rejected")
            /\ UNCHANGED <<controller, sessionVars>>
       ELSE /\ RanHeard("connect -d", [option |-> "-d"], <<>>, "ok", <<>>,
                        <<"Disconnected from active serial port">>)
            /\ closeComport
            /\ reset_controller

----------------------------------------------------------------------------
(* sensor with no controller bound: commands/sensor.py and hw_commands.py *)

SensorSubcommands == {"help", "dump", "poll", "list", "plot"}

\* the first statement of both implementations is
\* controller_sensors[zavDevice.controller], KeyError for None
SensorUnboundHandler(name) ==
    /\ controller = "None"
    /\ \E subcommand \in SensorSubcommands :
          RanPlain(name, [subcommand |-> subcommand], <<>>, "KeyError")
    /\ UNCHANGED <<flash_write_enabled, sensor_readouts, controller,
                   sessionVars>>

SensorUnbound == SensorUnboundHandler("sensor")

HwSensorUnbound == SensorUnboundHandler("hw sensor")

----------------------------------------------------------------------------
(* dual-deploy: commands/dualDeploy.py *)

dual_deploy_opcode == 160

\* sub_opcodes['status']
dual_deploy_status_code == 1

\* dual-deploy help and dual-deploy status, after the firmware check
DualDeploy ==
    /\ UNCHANGED <<flash_write_enabled, sensor_readouts, controller,
                   sessionVars>>
    /\ \E subcommand \in {"help", "status"}, silent \in BOOLEAN :
          LET inputs == [subcommand |-> subcommand]
              rx     == MkBuffer(4, IF silent THEN 4 ELSE 0, <<1, 1>>)
          IN  IF firmware # "Dual Deploy"
              THEN \* the error message is built with zavDevice.firmware:
                   \* TypeError when it is None
                   /\ ~silent
                   /\ RanPlain("dual-deploy", inputs, <<>>,
                               IF firmware = "None" THEN "TypeError"
                                                    ELSE "rejected")
              ELSE IF subcommand = "help"
              THEN /\ ~silent
                   /\ RanPlain("dual-deploy", inputs, <<>>, "help")
              ELSE IF ~is_open
              THEN \* nothing is sent, readBytes returns None
                   /\ ~silent
                   /\ RanPlain("dual-deploy", inputs, <<>>, "TypeError")
              ELSE RanPlain("dual-deploy", inputs,
                            <<Tx(dual_deploy_opcode),
                              Tx(dual_deploy_status_code), Rx(4, 7)>>,
                            IF FloatFails(rx) THEN "struct.error" ELSE "ok")

----------------------------------------------------------------------------
(* Sessions: the commands from the start of the program *)

SessionStep ==
    \/ CommandsStep
    \/ /\ \/ ConnectPort
          \/ ConnectDisconnect
          \/ SensorUnbound
          \/ HwSensorUnbound
          \/ DualDeploy
       /\ UNCHANGED <<filterVars, readoutVars, frameVars, codecVars,
                      callerVars>>

\* the device object after __init__; no port is found to connect to
InitSession ==
    /\ controller = "None"
    /\ CommandsIdle
    /\ SessionIdle
    /\ FilterIdle
    /\ ReadoutIdle
    /\ FramesIdle
    /\ CodecIdle
    /\ CallerIdle

SpecSession == InitSession /\ [][SessionStep]_vars

----------------------------------------------------------------------------
(* The whole model *)

Init ==
    \/ InitFilter
    \/ InitReadout
    \/ InitFrames
    \/ InitCodec
    \/ InitCommands
    \/ InitSession

Next ==
    \/ FilterStep
    \/ ReadoutStep
    \/ FramesStep
    \/ CodecStep
    \/ SessionStep

Spec == Init /\ [][Next]_vars

----------------------------------------------------------------------------
(* Properties of the validity filter *)

FilterReturned == filter_pc \in {"None", "list"}

\* number of leading frames of a list in which every frame differs from
\* its successor: the index of the last such frame (0 when there is none)
LastChange(l) ==
    IF \E i \in 1..Len(l) - 1 : l[i] # l[i + 1]
    THEN CHOOSE i \in 1..Len(l) - 1 :
             /\ l[i] # l[i + 1]
             /\ \A j \in i + 1..Len(l) - 1 : l[j] = l[j + 1]
    ELSE 0

\* l is n >= 1 frames, each differing from the next, followed by m >= 2
\* copies of one frame that differs from the n-th
DistinctThenConstant(l, n) ==
    /\ n >= 1
    /\ Len(l) - n >= 2
    /\ n = LastChange(l)
    /\ \A i \in 1..n : l[i] # l[i + 1]

Uniform(l) == \A i \in 1..Len(l) - 1 : l[i] = l[i + 1]

Prefix(l, k) == SubSeq(l, 1, k)

\* C1: for n >= 1 frames, each differing from the next, followed by m >= 2
\* copies of one frame, the filter returns exactly the first n-1 frames.
C1_ReturnsFirstNMinus1 ==
    \A n \in 1..MaxLen + 1 :
        (FilterReturned /\ DistinctThenConstant(data, n))
            => (filter_pc = "list" /\ sensor_data_filtered = Prefix(data, n - 1))

\* C2: on every input of length >= 2 whose frames are all
\* identical the filter returns None, never a list.
C2_UniformGivesNone ==
    (FilterReturned /\ Len(data) >= 2 /\ Uniform(data)) => filter_pc = "None"

\* C3: a list returned for n valid frames followed by a constant
\* suffix is a prefix of the input of length at most n.
C3_OnlyGoodData ==
    \A n \in 1..MaxLen + 1 :
        (filter_pc = "list" /\ DistinctThenConstant(data, n))
            => /\ Len(sensor_data_filtered) <= n
               /\ sensor_data_filtered = Prefix(data, Len(sensor_data_filtered))

----------------------------------------------------------------------------
(* Properties of the registry and of the frame parser *)

\* the blocks handed to getSensorFrames hold frame_size bytes each: no read
\* of a block timed out
FullBlocks ==
    \A b \in 1..Len(sensor_frames_bytes) : ~OrdFails(sensor_frames_bytes[b])

\* byte index at which the frame parser's last field ends
LastFieldEnd(ctrl) ==
    LET walk == IndexWalk(sensor_sizes[ctrl], DictKeys(sensor_sizes[ctrl]), 1, 4)
    IN  walk[Len(walk)].index + walk[Len(walk)].size

\* C4: for every controller the sensor sizes plus the 4-byte timestamp sum
\* to the controller's frame size, so the last field of a parsed block ends
\* at the block's last byte.
C4_FrameSizeIsSumOfSizes ==
    /\ \A c \in ControllerNames :
           Need(c, DictKeys(sensor_sizes[c])) + 4 = sensor_frame_sizes[c]
    /\ controller \in ControllerNames =>
           \A b \in 1..Len(sensor_frames_bytes) :
               LastFieldEnd(controller) = Len(sensor_frames_bytes[b])

C4_Witness ==
    /\ frames_status = "ok"
    /\ format = "converted"
    /\ controller = controller_names[2]
    /\ Len(sensor_frames) >= 1
    /\ LastFieldEnd(controller) = 36

\* C5: in 'converted' format k full blocks give exactly k frames, in block
\* order, each with 1 + (number of sensors) fields, the first one being the
\* time decoded from the block's first four bytes.
C5_OneFramePerBlock ==
    (frames_status # "idle" /\ format = "converted" /\ FullBlocks)
        => /\ frames_status = "ok"
           /\ Len(sensor_frames) = Len(sensor_frames_bytes)
           /\ \A b \in 1..Len(sensor_frames_bytes) :
                /\ Len(sensor_frames[b])
                       = 1 + Len(controller_sensors[controller])
                /\ sensor_frames[b][1].fn = "time_millis_to_sec"
                /\ sensor_frames[b][1] = time_millis_to_sec(
                       byte_array_to_int(SubSeq(sensor_frames_bytes[b], 1, 4)))

C5_Witness ==
    /\ frames_status = "ok"
    /\ format = "converted"
    /\ Len(sensor_frames) = 2
    /\ sensor_frames_bytes[1] # sensor_frames_bytes[2]
    /\ sensor_frames[1][1] # sensor_frames[2][1]

\* C6: the sensor fields of a parsed frame are getRawSensorReadouts followed
\* by convRawSensorReadouts on bytes 4.. of the block with the controller's
\* full sensor list, and the time is the little-endian value of bytes 0..3
\* (passed through time_millis_to_sec).
C6_FrameFieldsAreReadouts ==
    (frames_status # "idle" /\ format = "converted" /\ FullBlocks)
        => /\ frames_status = "ok"
           /\ \A b \in 1..Len(sensor_frames_bytes) :
                LET block == sensor_frames_bytes[b]
                    raw   == getRawSensorReadouts(controller,
                                 controller_sensors[controller],
                                 PySlice(block, 4, Len(block)))
                IN  /\ raw.status = "ok"
                    /\ sensor_frames[b] =
                         <<time_millis_to_sec(
                               byte_array_to_int(PySlice(block, 0, 4)))>>
                         \o DictValues(
                                convRawSensorReadouts(controller, raw.readouts))

C6_Witness ==
    /\ frames_status = "ok"
    /\ format = "converted"
    /\ controller = controller_names[3]
    /\ Len(sensor_frames) = 2
    /\ \E b \in 1..2 : sensor_frames[b][2].lo # sensor_frames[b][2].hi
                       /\ sensor_frames[b][2].fmt = "int"
                       /\ sensor_frames[b][12].fmt = "float"

----------------------------------------------------------------------------
(* Properties of the sensor readout pipeline *)

RawCalled == raw_status # "idle"

\* first-occurrence order of the keys of a list
RECURSIVE FirstOccurrences(_)
FirstOccurrences(l) ==
    IF l = <<>> THEN <<>>
    ELSE LET front == FirstOccurrences(SubSeq(l, 1, Len(l) - 1))
             last  == l[Len(l)]
         IN  IF \E i \in 1..Len(front) : front[i] = last
             THEN front ELSE Append(front, last)

LastOccurrence(l, k) ==
    CHOOSE i \in 1..Len(l) :
        l[i] = k /\ \A j \in i + 1..Len(l) : l[j] # k

\* what the codec makes of a byte range in the format of a sensor
Decoded(ctrl, sensor, bytes) ==
    IF DictGet(sensor_formats[ctrl], sensor) = "float"
    THEN byte_array_to_float(bytes) ELSE byte_array_to_int(bytes)

\* C7: with a buffer that holds the bytes of all requested keys, the i-th key
\* is decoded from the bytes [sum of the sizes of keys 0..i-1, that sum +
\* size of key i), consecutive keys use adjacent ranges, and the keys of the
\* returned dict are in the order of the key list.
C7_SequentialByteRanges ==
    (RawCalled /\ Len(sensor_bytes) >= Need(controller, sensors))
        => LET sizes == sensor_sizes[controller]
               before(i) == SumSizes(sizes, sensors, i - 1)
               size(i)   == DictGet(sizes, sensors[i])
               range(i)  == SubSeq(sensor_bytes, before(i) + 1,
                                   before(i) + size(i))
           IN  /\ \A i \in 1..Len(sensors) :
                      /\ ReadoutBytes(sizes, sensors, sensor_bytes, i) = range(i)
                      /\ Len(range(i)) = size(i)
               /\ \A i \in 1..Len(sensors) - 1 :
                      before(i + 1) = before(i) + size(i)
               /\ raw_status = "ok" =>
                      /\ DictKeys(raw_readouts) = FirstOccurrences(sensors)
                      /\ \A n \in 1..Len(raw_readouts) :
                             raw_readouts[n][2] =
                                 Decoded(controller, raw_readouts[n][1],
                                     range(LastOccurrence(sensors,
                                                          raw_readouts[n][1])))

C7_Witness ==
    /\ raw_status = "ok"
    /\ controller = controller_names[2]
    /\ Len(sensors) = 13
    /\ Len(sensor_bytes) = 32
    /\ DictGet(raw_readouts, "accY").lo = 3 + 4 * 256
    /\ DictGet(raw_readouts, "pres").lo = 21 + 22 * 256

\* C8: with a buffer shorter than the sum of the sizes of the requested
\* keys getRawSensorReadouts fails and returns no readout.
C8_ShortBufferFails ==
    (RawCalled /\ Len(sensor_bytes) < Need(controller, sensors))
        => (raw_status # "ok" /\ raw_readouts = <<>>)

\* sensor_sizes of a controller with the sizes of two keys exchanged
SwapSizes(sensor_size_dict, k1, k2) ==
    [n \in 1..Len(sensor_size_dict) |->
        LET k == sensor_size_dict[n][1]
        IN  IF k = k1 THEN <<k, DictGet(sensor_size_dict, k2)>>
            ELSE IF k = k2 THEN <<k, DictGet(sensor_size_dict, k1)>>
            ELSE sensor_size_dict[n]]

\* positions j of the key list where keys j and j+1 have different sizes
SwapPositions ==
    {j \in 1..Len(sensors) - 1 :
        DictGet(sensor_sizes[controller], sensors[j])
            # DictGet(sensor_sizes[controller], sensors[j + 1])}

\* the keys at j and j+1 occur nowhere else in the key list
OnlyAt(j) ==
    \A i \in 1..Len(sensors) :
        i \notin {j, j + 1} => sensors[i] \notin {sensors[j], sensors[j + 1]}

\* C9 as stated: swapping the sizes of two adjacent keys of different size
\* changes the byte range and the decoded value of both keys and of every
\* key that follows them.
C9_SwapShiftsAllFollowing ==
    (raw_status = "ok" /\ Len(Joined(sensor_bytes)) >= Need(controller, sensors))
        => \A j \in SwapPositions :
             LET swapped == SwapSizes(sensor_sizes[controller],
                                      sensors[j], sensors[j + 1])
                 w1 == IndexWalk(sensor_sizes[controller], sensors, 1, 0)
                 w2 == IndexWalk(swapped, sensors, 1, 0)
                 r2 == RawSensorReadouts(swapped, controller, sensors,
                                         sensor_bytes)
             IN  \A i \in j..Len(sensors) :
                     /\ w2[i] # w1[i]
                     /\ r2.status = "ok"
                     /\ DictGet(r2.readouts, sensors[i])
                            # DictGet(raw_readouts, sensors[i])

\* C9 amended: swapping the sizes of two adjacent keys of different size
\* changes the byte ranges of these two keys only (the first keeps its start
\* and changes its length, the second keeps its end and changes its start);
\* when the two keys occur nowhere else in the list the ranges of all other
\* keys, those that follow included, are unchanged; and the call returns no
\* changed values: the float key of the pair gets a 2-byte range and the
\* call fails with struct.error.
C9_SwapMovesOnlyTheBoundary ==
    RawCalled
        => \A j \in SwapPositions :
             LET swapped == SwapSizes(sensor_sizes[controller],
                                      sensors[j], sensors[j + 1])
                 w1 == IndexWalk(sensor_sizes[controller], sensors, 1, 0)
                 w2 == IndexWalk(swapped, sensors, 1, 0)
                 r2 == RawSensorReadouts(swapped, controller, sensors,
                                         sensor_bytes)
             IN  /\ r2.status = "struct.error"
                 /\ OnlyAt(j) =>
                      /\ w2[j].index = w1[j].index
                      /\ w2[j].size # w1[j].size
                      /\ w2[j + 1].index # w1[j + 1].index
                      /\ w2[j + 1].index + w2[j + 1].size
                             = w1[j + 1].index + w1[j + 1].size
                      /\ \A i \in 1..Len(sensors) :
                             i \notin {j, j + 1} => w2[i] = w1[i]

C9_Witness ==
    /\ raw_status = "ok"
    /\ controller = controller_names[2]
    /\ Len(sensors) = 13
    /\ 10 \in SwapPositions
    /\ OnlyAt(10)
    /\ IndexWalk(SwapSizes(sensor_sizes[controller], "imut", "pres"),
                 sensors, 1, 0)[12]
           = [index |-> 24, size |-> 4]

\* C10: convRawSensorReadouts returns the keys of the raw readout in the same
\* order; the value of magX, magY, magZ and imut (no function registered) is
\* the raw value, every other value is the registered conversion function
\* applied to the raw value.
C10_ConversionPerKey ==
    conv_status = "ok"
        => /\ DictKeys(readouts) = DictKeys(raw_readouts)
           /\ \A n \in 1..Len(raw_readouts) :
                LET sensor == raw_readouts[n][1]
                    raw    == raw_readouts[n][2]
                    func   == DictGet(sensor_conv_funcs[controller], sensor)
                IN  /\ func = "None"
                           <=> sensor \in {"magX", "magY", "magZ", "imut"}
                    /\ func = "None" => readouts[n][2] = raw
                    /\ func # "None" =>
                           /\ readouts[n][2] = ApplyConv(func, raw)
                           /\ readouts[n][2] # raw

C10_Witness ==
    /\ conv_status = "ok"
    /\ controller = controller_names[2]
    /\ Len(readouts) = 13
    /\ DictGet(readouts, "magX") = DictGet(raw_readouts, "magX")
    /\ DictGet(readouts, "accX").fn = "imu_accel"
    /\ DictGet(readouts, "vbat").fn = "adc_readout_to_voltage"

----------------------------------------------------------------------------
(* Properties of the byte codec *)

\* v.to_bytes( n, 'little' ) of a number held in two 16-bit limbs
ToBytesLittle(v, n) ==
    [i \in 1..n |-> CASE i = 1 -> v.lo % 256
                      [] i = 2 -> v.lo \div 256
                      [] i = 3 -> v.hi % 256
                      [] i = 4 -> v.hi \div 256]

RealBytes(bytes) == \A i \in 1..Len(bytes) : bytes[i] # Empty

\* C11: for n in 1..4 bytes, byte_array_to_int returns the number whose n
\* little-endian bytes are the argument: byte i contributes byte_i * 2^(8i),
\* so decoding the little-endian bytes of v gives v back
C11_IntRoundTrips ==
    (codec_op = "int" /\ Len(codec_byte_array) \in 1..4 /\ RealBytes(codec_byte_array))
        => /\ codec_status = "ok"
           /\ codec_value.fmt = "int"
           /\ codec_value.lo \in 0..65535
           /\ codec_value.hi \in 0..65535
           /\ ToBytesLittle(codec_value, Len(codec_byte_array)) = codec_byte_array
           /\ ToBytesLittle(codec_value, 4)
                  = codec_byte_array \o [i \in 1..(4 - Len(codec_byte_array)) |-> 0]

C11_Witness ==
    /\ codec_op = "int"
    /\ codec_byte_array = <<1, 0, 255, 127>>
    /\ codec_value.lo = 1
    /\ codec_value.hi = 32767

\* C12: byte_array_to_int does not return a number for the empty list: the
\* call fails with a decode error
C12_EmptyIntFails ==
    (codec_op = "int" /\ codec_byte_array = <<>>) => codec_status # "ok"

\* C13: for 4 bytes, byte_array_to_float reinterprets the argument unchanged,
\* except that FF FF FF FF is replaced by four zero bytes and gives 0.0; no
\* other pattern (FF FF FF 7F for one) is replaced
C13_OnlyAllFFIsZeroed ==
    (codec_op = "float" /\ Len(codec_byte_array) = 4 /\ RealBytes(codec_byte_array))
        => /\ codec_status = "ok"
           /\ codec_value.fmt = "float"
           /\ ToBytesLittle(codec_value, 4) =
                  IF codec_byte_array = <<255, 255, 255, 255>>
                  THEN <<0, 0, 0, 0>> ELSE codec_byte_array

C13_Witness ==
    /\ codec_op = "float"
    /\ codec_byte_array = <<255, 255, 255, 127>>
    /\ codec_status = "ok"
    /\ codec_value.lo = 65535
    /\ codec_value.hi = 32767

----------------------------------------------------------------------------
(* Properties of the filter's callers *)

\* C16: when the filter returns the no-data outcome, the handler that called
\* it (sensor plot, dual-deploy extract) goes on as with an empty list of
\* frames and ends without an exception
C16_NoDataIsAnEmptyList ==
    (caller # "none" /\ filter_pc = "None") => caller_status = "ok"

----------------------------------------------------------------------------
(* Properties of the command handlers *)

\* the reads of an exchange, in order
ReadEvents(events) == SelectSeq(events, LAMBDA e : e[1] = "rx")

DecodedFrames(ctrl, blocks) ==
    RList([i \in 1..Len(blocks.head) |->
               SensorFrame(ctrl, blocks.head[i]).frame],
          SensorFrame(ctrl, blocks.tail).frame, blocks.count)

\* the frames the validity filter keeps; none when it returns None or fails
KeptByFilter(frames) ==
    LET r == sensor_extract_data_filter(frames)
    IN  IF r.kind = "list" THEN r.list ELSE NoList

C17_PollRuns100Iterations ==
    (command = "sensor poll" /\ cmd_status = "ok") =>
        LET names == Args.selectedSensorNames
            size  == Need(controller, names)
            codes == [i \in 1..Len(names) |->
                         Tx(DictGet(sensor_codes[controller], names[i]))]
            loop  == [i \in 1..(4 * 100) |->
                         CASE i % 4 = 1 -> Tx(81)
                           [] i % 4 = 2 -> Rx(size, 1)
                           [] i % 4 = 3 -> Tx(68)
                           [] OTHER     -> Tx(239)]
        IN  io = <<Tx(5), Tx(2), Tx(Len(names))>> \o codes \o <<Tx(243)>>
                     \o loop \o <<Tx(116)>>

\* the wire table: the opcode of every command and the code of every
\* subcommand
WireOpcode(cmd) ==
    CASE cmd = "ping" -> 1
      [] cmd \in {"ignite main", "ignite drogue", "ignite cont"} -> 3
      [] cmd \in {"flash read", "flash enable", "flash disable",
                  "flash write", "flash erase", "flash status",
                  "flash extract"} -> 4
      [] cmd \in {"sensor dump", "sensor poll",
                  "hw sensor dump", "hw sensor poll"} -> 5

WireSubcode(cmd) ==
    CASE cmd \in {"ignite main", "flash read", "sensor dump",
                  "hw sensor dump"} -> 1
      [] cmd \in {"ignite drogue", "flash enable", "sensor poll",
                  "hw sensor poll"} -> 2
      [] cmd \in {"ignite cont", "flash disable"} -> 3
      [] cmd = "flash write" -> 4
      [] cmd = "flash erase" -> 5
      [] cmd = "flash status" -> 6
      [] cmd = "flash extract" -> 7

\* C18: every handler that sends a command to the device sends the opcode
\* of the wire table as its first byte and, for a command with subcommands,
\* the subcommand's code of the table as its second byte; so does every
\* implementation of the sensor command
C18_OpcodeThenSubcode ==
    (command # "none" /\ io # <<>>) =>
        /\ io[1] = Tx(WireOpcode(command))
        /\ (command # "ping") =>
               (Len(io) >= 2 /\ io[2] = Tx(WireSubcode(command)))

\* events 3..5 are the three bytes of address, most significant first
AddressSent(events, address) ==
    /\ \A i \in 3..5 : events[i][1] = "tx" /\ events[i][2] \in 0..255
    /\ events[3][2] * 65536 + events[4][2] * 256 + events[5][2] = address

\* the read request: 04 01, the address, the count c in 1..31, then exactly
\* c bytes read
ReadRequestSent ==
    (command = "flash read" /\ io # <<>>) =>
        /\ Len(io) = 7
        /\ io[1] = Tx(4)
        /\ io[2] = Tx(1)
        /\ AddressSent(io, Args.address_int)
        /\ Args.num_bytes \in 1..31
        /\ io[6] = Tx(Args.num_bytes)
        /\ io[7] = Rx(1, Args.num_bytes)

\* C19: a flash write request is 04 04, the 3-byte big-endian address, then
\* the data byte and nothing else; a flash read request is 04 01, the
\* address, one count byte c with 1 <= c <= 31, and then c bytes are read
C19_WriteAndReadRequests ==
    /\ (command = "flash write" /\ io # <<>>) =>
           /\ Len(io) = 6
           /\ io[1] = Tx(4)
           /\ io[2] = Tx(4)
           /\ AddressSent(io, Args.address_int)
           /\ io[6] = Tx(Args.byte_int)
    /\ ReadRequestSent

\* C19, as amended: a flash write request is 04 04, the 3-byte big-endian
\* address, a count byte of value 1 (the number of bytes to write), then
\* the data byte, 7 bytes in all; the read request is as stated
C19_WriteSendsCountThenByte ==
    /\ (command = "flash write" /\ io # <<>>) =>
           /\ Len(io) = 7
           /\ io[1] = Tx(4)
           /\ io[2] = Tx(4)
           /\ AddressSent(io, Args.address_int)
           /\ io[6] = Tx(1)
           /\ io[7] = Tx(Args.byte_int)
    /\ ReadRequestSent

C19_Witness ==
    /\ command = "flash write"
    /\ Args.address_int = 66051
    /\ io = <<Tx(4), Tx(4), Tx(1), Tx(2), Tx(3), Tx(1), Tx(255)>>

\* C20: flash_write_enabled is false at first, is set by flash enable, reset
\* by flash disable and changed by no other command; a flash write sends
\* bytes only while it is true, and is otherwise refused with an error (or
\* shows its help) without sending anything
C20_WriteOnlyWhenEnabled ==
    /\ flash_write_enabled = FALSE
    /\ []((command = "flash write" /\ io # <<>>) => flash_write_enabled)
    /\ []((command = "flash write" /\ ~flash_write_enabled) =>
              /\ io = <<>>
              /\ (Args.option # "-h") => (cmd_status = "rejected"))
    /\ [][/\ (command' = "flash enable") => flash_write_enabled'
          /\ (command' = "flash disable") => ~flash_write_enabled'
          /\ (command' \notin {"flash enable", "flash disable"}) =>
                 (flash_write_enabled' = flash_write_enabled)]_vars

C20_Witness ==
    /\ command = "flash write"
    /\ flash_write_enabled
    /\ cmd_status = "ok"
    /\ Len(io) > 0

----------------------------------------------------------------------------
(* Properties of the responses *)

\* the messages that report a status code the handlers know
KnownOutcomes ==
    {ReturnMessage(code) : code \in RETURN_MESSAGES \ {Empty}}

\* C21: when the first byte of the response is a timeout (an empty read),
\* ping, ignite main, ignite drogue, ignite cont and flash status report
\* that there was no response, a report distinct from the report of every
\* status code, and return normally to the prompt
C21_TimeoutIsReported ==
    (/\ command \in {"ping", "ignite main", "ignite drogue", "ignite cont",
                     "flash status"}
     /\ response # <<>>
     /\ response[1] = Empty) =>
        /\ cmd_status = "ok"
        /\ Len(report) = 1
        /\ report[1] \notin KnownOutcomes

\* C22: for a status byte that is not empty and is none of the codes
\* 01..05, ignite main and ignite drogue report an unrecognized response
\* and return normally: no exception, and no report of a known outcome
C22_UnknownStatusIsReported ==
    (/\ command \in {"ignite main", "ignite drogue"}
     /\ response # <<>>
     /\ response[1] # Empty
     /\ response[1] \notin 1..5) =>
        /\ cmd_status = "ok"
        /\ report = <<"Error: unrecognized ignition response code">>

\* C23: connect -p, when the identification byte is a timeout or is no
\* code of a controller: the handler reports that the connection was
\* unsuccessful, closes the port, reads no firmware byte, leaves controller
\* and firmware as they were, and returns normally
C23_UnknownControllerFails ==
    [][(/\ command' = "connect -p"
        /\ command = "none"
        /\ response' # <<>>
        /\ response'[1] \notin 1..4) =>
           /\ cmd_status' = "ok"
           /\ report' = <<"Controller connection was unsuccessful.">>
           /\ is_open' = FALSE
           /\ io' = <<Tx(2), Rx(1, 1)>>
           /\ Len(response') = 1
           /\ controller' = controller
           /\ firmware' = firmware]_vars

C23_Witness ==
    /\ command = "connect -p"
    /\ response = <<5>>
    /\ ~is_open
    /\ controller = "None"
    /\ firmware = "Dual Deploy"

\* C24: connect -p, when the controller code is known and the firmware
\* byte is a timeout or is none of the ids 01, 02, 03: the handler returns
\* normally and does not leave the port open with no controller bound
C24_UnknownFirmwareIsReported ==
    (/\ command = "connect -p"
     /\ Len(response) = 2
     /\ response[2] \notin 1..3) =>
        /\ cmd_status = "ok"
        /\ ~(is_open /\ controller = "None")

\* C25: a sensor command, in either implementation, while no controller is
\* bound is refused with an error message: nothing is sent and there is no
\* exception
C25_SensorNeedsController ==
    (command \in {"sensor", "hw sensor"} /\ controller = "None") =>
        /\ cmd_status = "rejected"
        /\ io = <<>>

\* a handler sent something / read something
Wrote == \E i \in 1..Len(io) : io[i][1] = "tx"
Read  == \E i \in 1..Len(io) : io[i][1] = "rx" /\ io[i][2] * io[i][3] > 0

\* C26: a handler that sent a command and returned normally has read a
\* response to it; none reports success without having read one
C26_EveryWriteIsAnswered ==
    (command # "none" /\ cmd_status = "ok" /\ Wrote) => Read

\* C27: ignite cont reports, for every continuity byte b in 0..255, the
\* switch connected iff bit 0 of b is set, the main ematch connected iff
\* bit 1 is set, the drogue ematch connected iff bit 2 is set, whatever
\* the bits 3..7 and the status byte that follows
C27_ContinuityBits ==
    (command = "ignite cont" /\ cmd_status = "ok") =>
        LET b == response[1]
        IN  /\ b \in 0..255
            /\ Len(report) = 3
            /\ report[1] = IF b % 2 = 1
                           THEN "Switch:        Connected"
                           ELSE "Switch:        Disconnected"
            /\ report[2] = IF (b \div 2) % 2 = 1
                           THEN "Main Ematch:   Connected"
                           ELSE "Main Ematch:   Disconnected"
            /\ report[3] = IF (b \div 4) % 2 = 1
                           THEN "Drogue Ematch: Connected"
                           ELSE "Drogue Ematch: Disconnected"

C27_Witness ==
    /\ command = "ignite cont"
    /\ cmd_status = "ok"
    /\ response = <<250, Empty>>
    /\ report = <<"Switch:        Disconnected",
                  "Main Ematch:   Connected",
                  "Drogue Ematch: Disconnected">>

----------------------------------------------------------------------------
(* Properties of the filter's loop *)

\* C28: the filter terminates on every input of 2 frames or more: an
\* iteration that does not leave the loop makes end_index - start_index
\* strictly smaller, and it stays positive, so that the loop is left
C28_FilterTerminates ==
    /\ [][(filter_pc = "loop" /\ filter_pc' = "loop" /\ Len(data) >= 2) =>
             /\ end_index' - start_index' < end_index - start_index
             /\ end_index' - start_index' >= 1]_vars
    /\ (filter_pc = "loop" /\ Len(data) >= 2)
           ~> (filter_pc \in {"None", "list"})

C28_Witness ==
    /\ filter_pc = "loop"
    /\ Len(data) = MaxLen
    /\ start_index > 0
    /\ end_index < Len(data) - 1

\* C29: on an input of 2 frames or more, in every iteration
\* 0 <= start_index <= search_index < end_index <= len(data) - 1, so that
\* data[search_index] and data[search_index+1] exist and no exception is
\* raised; on an input of 0 or 1 frames the first comparison indexes
\* outside the list
C29_IndicesInRange ==
    /\ (filter_pc = "loop" /\ Len(data) >= 2) =>
           /\ 0 <= start_index
           /\ start_index <= SearchIndex
           /\ SearchIndex < end_index
           /\ end_index <= Len(data) - 1
    /\ (filter_pc \in {"None", "list"}) =>
           /\ Len(data) >= 2
           /\ 0 <= search_index
           /\ search_index + 1 <= Len(data) - 1
    /\ (filter_pc = "IndexError") =>
           /\ Len(data) <= 1
           /\ start_index = 0
           /\ end_index = Len(data) - 1
    /\ (filter_pc = "loop" /\ Len(data) <= 1) => ~SearchInRange

C29_Witness ==
    /\ filter_pc = "list"
    /\ Len(data) = MaxLen
    /\ search_index + 1 = Len(data) - 1

----------------------------------------------------------------------------
(* Properties of the session *)

\* C30: after a connect -d that succeeded the device has no controller and
\* no firmware bound: controller and firmware are both None
C30_DisconnectUnbindsAll ==
    (command = "connect -d" /\ cmd_status = "ok") =>
        /\ controller = "None"
        /\ firmware = "None"

====
